---- MODULE Spec2Model ----
(***************************************************************************)
(* Model of the shared-state hub subsystem of @d3vtool/hooks:              *)
(*   Hub / createComputedHub      (Hub.ts)                                 *)
(*   useHub updater, mount effect (Hub/useHub.ts)                          *)
(*   PromiseHub                   (PromiseHub/usePromiseHub.ts)            *)
(* A JavaScript Set iterates in insertion order, so every listener set is  *)
(* a sequence without duplicates.                                          *)
(***************************************************************************)
EXTENDS Integers, Sequences, FiniteSets, TLC

\* ------------------------------------------------------------------ bounds
MaxVal == 2
MaxResult == 1
MaxCalls == 2
MaxPromises == 3
Delay == 2
MaxBurst == 3
MaxInbox == 2
MaxQueue == 2

Values == 0..MaxVal

\* ------------------------------------------------------------- Hub: names
HubIds == {"src", "cmp"}
SrcListeners == {"L1", "L2"}
CmpListeners == {"D1"}
AllListeners == SrcListeners \cup CmpListeners
ComputeActions == {"double", "inc"}
PrevStateActions == {"inc", "double"}
ComputedCallback == "computed"

VARIABLES
    hubs,          \* HubIds -> [currentState, listeners, onChangeListeners]
    computeAction, \* "none" until createComputedHub has run, then its computeAction
    mounted,       \* listeners (setState dispatchers) whose component is mounted
    detached,      \* listeners whose latest attach/remove call was Hub.removeListener
    delivered,     \* listener -> calls it received in the latest update: <<[arg, seen]>>
    lastUpdate     \* the latest useHub updater call: by (a literal or which function),
                   \* value published, whether the computed hub existed, and whether
                   \* Hub.setCurrentState has been called since

hubVars == <<hubs, computeAction, mounted, detached, delivered, lastUpdate>>

\* ------------------------------------------------------- PromiseHub: names
CallIds == 1..MaxCalls
PListeners == {"P1", "P2"}
Results == 0..MaxResult
Errors == {"E1", "E2"}
NoError == "null"

VARIABLES
    promiseState,  \* PromiseHub.promiseState: [currentState, pending, error]
    pListeners,    \* PromiseHub.listeners, in insertion order
    calls,         \* CallIds -> one reAction() invocation: where it stands, the argument
                   \* its action got, how the action settled, what reAction() returned,
                   \* the notifications it made, and whether it ran alone
    microtasks     \* continuations of settled awaits, in the order they will run

promiseVars == <<promiseState, pListeners, calls, microtasks>>

\* ------------------------------------------- listener registries: names
\* The two Set fields, `listeners` and `onChangeListeners`, that Hub and PromiseHub
\* both have, with listeners that are arbitrary functions: one that returns, one
\* that throws, one that detaches a listener, one that attaches a listener.
Kinds == {"Hub", "PromiseHub"}
RListeners == {"A", "B", "C"}
Actors == {"A", "B"}
Callbacks == {"c1"}
Empty == "empty"

VARIABLES
    kind,          \* the class of the hub under test: "Hub" or "PromiseHub"
    does,          \* RListeners -> what the listener's body does: [op, target]
    regListeners,  \* this.listeners, in insertion order
    regOnChange,   \* this.onChangeListeners, in insertion order
    regValue,      \* the state field the notifying method writes (PromiseHub only)
    lastCb,        \* Callbacks -> the latest registry call made with it
    attachCalls,   \* RListeners -> attachListener calls made with it since it was
                   \* last absent from the set, counted up to 2
    round          \* the notification round that has just run, until the next registry
                   \* call: what was attached when it began, the calls and registry
                   \* changes it made in order, the change callbacks it invoked, and
                   \* whether a listener's exception ended it

registryVars == <<kind, does, regListeners, regOnChange, regValue, lastCb, attachCalls,
                  round>>

\* ------------------------------------------------- suspense consumer: names
\* One component that calls usePromiseHub / usePromiseReadHub / usePromiseHubAction
\* with suspense on, on a PromiseHub that other code triggers as well. Its listener
\* is its setState dispatcher.
SetState == "setState"

VARIABLES
    sState,        \* promiseHub.promiseState: [currentState, pending, error]
    sListeners,    \* promiseHub.listeners
    sCalls,        \* CallIds -> one reAction() invocation: where it stands and how its
                   \* action settled
    sQueue,        \* continuations of settled awaits, in the order they will run
    consumer,      \* the component instance: whether it is in the tree and its effects
                   \* have run, its useState value, promiseResolveFnRef, whether a
                   \* re-render is scheduled, how its latest render attempt ended,
                   \* hasRenderedRef, and the reAction() calls its own effect has made
                   \* (counted up to 2)
    promises       \* the promises the hook has thrown, oldest first: "unresolved",
                   \* "resolved" (with the hub not pending), "early" (resolved while
                   \* the hub was pending) or "twice"

suspenseVars == <<sState, sListeners, sCalls, sQueue, consumer, promises>>

\* ---------------------------------------------------------- useDebounce: names
\* One component that calls useDebounce(delay, debounceAction) and code that
\* calls the function it returns. Time passes in units; delay is Delay units.
DebounceActions == {"a1", "a2"}

VARIABLES
    debouncer,     \* [timers, held]: the timers that are set and have not run, oldest
                   \* first, each [left, action, values]; and whether timeoutRef.current
                   \* is the newest of them
    debounceAction, \* the debounceAction of the latest render
    lastCall,      \* the latest call of the returned function: [made, values]
    sinceCall,     \* time units since that call, counted up to Delay
    ran,           \* the executions since that call, in order: [action, values,
                   \* after], after = the number of calls since the execution before
    burst          \* calls of the returned function since the last execution

debounceVars == <<debouncer, debounceAction, lastCall, sinceCall, ran, burst>>

\* ------------------------------------------------- usePersistentState: names
\* One origin with two tabs that run the same application. "w1" is a component
\* that calls usePersistentState, "w2" is the same component in the other
\* tab, "r1" is another component of the first tab that calls
\* useReadPersistentState. All are first rendered with key "k1"; the code
\* of the application calls the setter of w1, changes the key w1 is rendered
\* with, and unmounts w1.
Instances == {"w1", "w2", "r1"}
Keys == {"k1", "k2"}
FirstKey == "k1"
ChannelIds == {"r0", "r1"}
Undefined == -1
InitialState == 0

VARIABLES
    storage,       \* localStorage of the origin: key -> entry
    inst,          \* instance -> [phase, key, state]: "new" before the first render,
                   \* "mounted", "unmounted"; the key of the latest render; the state
    savers,        \* instance -> the timers of its useDebounce, values = <<key, value>>
    inbox,         \* instance -> message events queued for its BroadcastChannel
    channelId,     \* instance -> the useId() it names its channel with
    clearStorageOnUnMount,  \* config of w1
    lastSet        \* the latest call of w1's setter: [made, key, value, seen], seen =
                   \* the other instances that were mounted then

persistVars == <<storage, inst, savers, inbox, channelId, clearStorageOnUnMount, lastSet>>

\* ------------------------------------------------------- useStoredHub: names
\* One Hub and two components of one tab that call useStoredHub with the same
\* key on it. The listener each attaches is the setter of its usePersistentState.
Consumers == {"s1", "s2"}

VARIABLES
    storedHub,     \* the Hub: [currentState, listeners]
    consumers,     \* consumer -> [phase, state, queue, changed]: "new" before the
                   \* first render, then "mounted"; the state of the latest render;
                   \* the setState calls not rendered yet, each [value, save]; whether
                   \* the effect on [state] has still to run
    storedEntry,   \* the localStorage entry of the key
    storedSavers,  \* consumer -> the timers of its useDebounce
    setterCalls    \* the calls of the returned setter: [made, expected, loaded,
                   \* partial, byFn], expected = the value that a counter started at
                   \* the hub's initial state has after them; loaded = some consumer
                   \* took its state from the storage entry; partial = some call was
                   \* made before every consumer was mounted; byFn = some call passed
                   \* a function

storedVars == <<storedHub, consumers, storedEntry, storedSavers, setterCalls>>

\* --------------------------------------------------- re-entrant update: names
\* A Hub whose listeners record what they are called with; one of them also
\* calls the useHub updater with another value when it is called with a
\* certain value.
VARIABLES
    rnListeners,   \* hub.listeners, in insertion order
    republish,     \* [listener, on, with]: the listener that, called with `on`,
                   \* publishes `with`
    rnCalls        \* the listener calls of the latest updater call made from
                   \* outside, in order: [listener, value, depth]

reentrantVars == <<rnListeners, republish, rnCalls>>

\* ------------------------------------- PromiseHub, throwing listener: names
\* A PromiseHub with one listener that is an arbitrary function: it throws when
\* it is called by some of the four notifications reAction makes.
Notifications == {"pending", "value", "error", "settled"}
ListenerError == "L"

VARIABLES
    thState,       \* promiseState: [currentState, pending, error]
    thAttached,    \* whether the listener is in this.listeners
    thThrowsOn,    \* the notifications in which the listener throws: "pending" =
                   \* setPendingState(true), "value" = setCurrentState, "error" =
                   \* setErrorState, "settled" = setPendingState(false)
    thCalls,       \* CallIds -> one reAction() invocation: [pc, outcome, ret]
    thQueue        \* continuations of settled awaits, in the order they will run

throwVars == <<thState, thAttached, thThrowsOn, thCalls, thQueue>>

hookVars == <<suspenseVars, debounceVars, persistVars, storedVars, reentrantVars,
             throwVars>>

outsideHub == <<promiseVars, registryVars, hookVars>>
outsidePromise == <<hubVars, registryVars, hookVars>>
outsideRegistry == <<hubVars, promiseVars, hookVars>>
outsideSuspense == <<hubVars, promiseVars, registryVars, debounceVars, persistVars,
                     storedVars, reentrantVars,
                     throwVars>>
outsideDebounce == <<hubVars, promiseVars, registryVars, suspenseVars, persistVars,
                     storedVars, reentrantVars,
                     throwVars>>
outsidePersist == <<hubVars, promiseVars, registryVars, suspenseVars, debounceVars,
                    storedVars, reentrantVars,
                    throwVars>>
outsideStored == <<hubVars, promiseVars, registryVars, suspenseVars, debounceVars,
                   persistVars, reentrantVars,
                   throwVars>>
outsideThrow == <<hubVars, promiseVars, registryVars, suspenseVars, debounceVars,
                  persistVars, storedVars, reentrantVars>>
outsideReentrant == <<hubVars, promiseVars, registryVars, suspenseVars, debounceVars,
                      persistVars, storedVars,
                      throwVars>>

vars == <<hubVars, promiseVars, registryVars, hookVars>>

\* ------------------------------------------------------- Hub: pure helpers
HubOf(l) == IF l \in SrcListeners THEN "src" ELSE "cmp"

Has(s, x) == \E i \in 1..Len(s) : s[i] = x

\* Array.prototype.push in the place of Set.prototype.add
SetAdd_push(s, x) == Append(s, x)

\* Set.prototype.add
SetAdd(s, x) == IF Has(s, x) THEN s ELSE Append(s, x)

\* Set.prototype.delete
SetDelete(s, x) == SelectSeq(s, LAMBDA y : y # x)

\* (prev: T) => T, the function form of the updater argument
ApplyPrev(f, prev) == IF f = "inc" THEN prev + 1 ELSE 2 * prev

\* computeAction(currentState)
Compute(ca, s) == IF ca = "double" THEN 2 * s ELSE s + 1

\* Hub.getCurrentState
getCurrentState(H, h) == H[h].currentState

\* What a render of useComputeHub(hub, computeAction) returns:
\*   const computeHub = new Hub(computeAction(hub.getCurrentState()));
\*   return computeHub.getCurrentState();
\* Its effect registers handleOnChange, which notifies that render's computeHub, a
\* hub nothing is attached to; no setState is involved.
useComputeHub(H, ca) ==
    LET computeHub == [currentState |-> Compute(ca, getCurrentState(H, "src")),
                       listeners |-> <<>>, onChangeListeners |-> <<>>]
    IN computeHub.currentState

\* A listener is a React state dispatcher: calling it records the argument. `seen`
\* is what hub.getCurrentState() returns at the moment of the call.
CallListener(H, h, l, newState, D) ==
    [D EXCEPT ![l] = Append(@, [arg |-> newState, seen |-> getCurrentState(H, h)])]

RECURSIVE ForEachListener(_, _, _, _, _)
ForEachListener(H, h, ls, newState, D) ==
    IF ls = <<>> THEN D
    ELSE ForEachListener(H, h, Tail(ls), newState, CallListener(H, h, Head(ls), newState, D))

\* Hub.notifyListener: listeners.forEach(l => l(newState)), then
\* onChangeListeners.forEach(l => l()). The only onChange callback is the one
\* createComputedHub registers on the source; it reads the source's current state,
\* computes, and notifies the computed hub's listeners.
\* onChange callbacks put off to a later turn instead of being called in the loop
ForEachOnChange_deferred(H, ca, cbs, D) == D

RECURSIVE notifyListener(_, _, _, _, _)
RECURSIVE ForEachOnChange(_, _, _, _)
\* An onChange loop in which the computed hub's callback is registered twice
ForEachOnChange_twice(H, ca, cbs, D) ==
    IF cbs = <<>> THEN D
    ELSE LET newComputedState == Compute(ca, getCurrentState(H, "src"))
         IN notifyListener(H, ca, "cmp", newComputedState,
                           notifyListener(H, ca, "cmp", newComputedState, D))

ForEachOnChange(H, ca, cbs, D) ==
    IF cbs = <<>> THEN D
    ELSE LET currentHubState == getCurrentState(H, "src")
             newComputedState == Compute(ca, currentHubState)
         IN ForEachOnChange(H, ca, Tail(cbs),
                            notifyListener(H, ca, "cmp", newComputedState, D))

notifyListener(H, ca, h, newState, D) ==
    ForEachOnChange(H, ca, H[h].onChangeListeners,
                    ForEachListener(H, h, H[h].listeners, newState, D))

NoCalls == [l \in AllListeners |-> <<>>]

\* --------------------------------------------------------------- Hub: Init
\* createHub(initialState); nothing attached, nothing published yet.
HubCreated(v) ==
    /\ hubs = [h \in HubIds |->
                 [currentState |-> v, listeners |-> <<>>, onChangeListeners |-> <<>>]]
    /\ computeAction = "none"
    /\ mounted = {}
    /\ detached = {}
    /\ delivered = NoCalls
    /\ lastUpdate = [by |-> "none", value |-> 0, cmpLive |-> FALSE, direct |-> FALSE]

\* ------------------------------------------------------------ Hub: actions
\* Hub.attachListener
attachListener(l) ==
    /\ hubs' = [hubs EXCEPT ![HubOf(l)].listeners = SetAdd(@, l)]
    /\ detached' = detached \ {l}
    /\ UNCHANGED <<computeAction, mounted, delivered, lastUpdate>>
    /\ UNCHANGED outsideHub

\* removeListener with the body of the removeOnChange slip: add instead of delete
removeListener_adds(l) ==
    /\ hubs' = [hubs EXCEPT ![HubOf(l)].listeners = SetAdd(@, l)]
    /\ detached' = detached \cup {l}
    /\ UNCHANGED <<computeAction, mounted, delivered, lastUpdate>>
    /\ UNCHANGED outsideHub

\* Hub.removeListener
removeListener(l) ==
    /\ hubs' = [hubs EXCEPT ![HubOf(l)].listeners = SetDelete(@, l)]
    /\ detached' = detached \cup {l}
    /\ UNCHANGED <<computeAction, mounted, delivered, lastUpdate>>
    /\ UNCHANGED outsideHub

\* useHub / useReadHub mount effect: hub.attachListener(setState)
Mount(l) ==
    /\ l \notin mounted
    /\ (HubOf(l) = "cmp" => computeAction # "none")
    /\ mounted' = mounted \cup {l}
    /\ hubs' = [hubs EXCEPT ![HubOf(l)].listeners = SetAdd(@, l)]
    /\ detached' = detached \ {l}
    /\ UNCHANGED <<computeAction, delivered, lastUpdate>>
    /\ UNCHANGED outsideHub

\* useHub / useReadHub effect cleanup: hub.detachListener(setState). Hub defines
\* removeListener and no detachListener, so the call throws a TypeError before
\* anything is removed: the listener set is left as it was.
Unmount(l) ==
    /\ l \in mounted
    /\ mounted' = mounted \ {l}
    /\ UNCHANGED <<hubs, computeAction, detached, delivered, lastUpdate>>
    /\ UNCHANGED outsideHub

\* Hub.setCurrentState (its caller is the useStoredHub effect)
setCurrentState(v) ==
    /\ hubs' = [hubs EXCEPT !["src"].currentState = v]
    /\ lastUpdate' = [lastUpdate EXCEPT !.direct = TRUE]
    /\ UNCHANGED <<computeAction, mounted, detached, delivered>>
    /\ UNCHANGED outsideHub

\* The body of the useHub updater once nState is known: hub.notifyListener(nState)
Publish(by, nState) ==
    /\ delivered' = notifyListener(hubs, computeAction, "src", nState, NoCalls)
    /\ lastUpdate' = [by |-> by, value |-> nState,
                      cmpLive |-> computeAction # "none", direct |-> FALSE]
    /\ UNCHANGED <<hubs, computeAction, mounted, detached>>
    /\ UNCHANGED outsideHub

\* useHub updateState(newState) with a literal value
updateState(v) ==
    /\ v \in Values
    /\ Publish("literal", v)

\* useHub updateState(newState) with newState instanceof Function
updateStateFn(f) ==
    LET nState == ApplyPrev(f, getCurrentState(hubs, "src")) IN
    /\ nState \in Values
    /\ Publish(f, nState)

\* createComputedHub(hub, computeAction)
createComputedHub(ca) ==
    /\ computeAction = "none"
    /\ computeAction' = ca
    /\ hubs' = [hubs EXCEPT
                  !["cmp"].currentState = Compute(ca, getCurrentState(hubs, "src")),
                  !["src"].onChangeListeners = SetAdd(@, ComputedCallback)]
    /\ UNCHANGED <<mounted, detached, delivered, lastUpdate>>
    /\ UNCHANGED outsideHub

HubNext ==
    \/ \E l \in SrcListeners : attachListener(l)
    \/ \E l \in SrcListeners : removeListener(l)
    \/ \E l \in AllListeners : Mount(l)
    \/ \E l \in AllListeners : Unmount(l)
    \/ \E v \in Values : setCurrentState(v)
    \/ \E v \in Values : updateState(v)
    \/ \E f \in PrevStateActions : updateStateFn(f)
    \/ \E ca \in ComputeActions : createComputedHub(ca)


\* ================================================================ PromiseHub
NoOutcome == [kind |-> "none", val |-> 0, err |-> NoError]
NoReturn == [kind |-> "none", val |-> 0]
NewCall == [pc |-> "new", arg |-> 0, outcome |-> NoOutcome, ret |-> NoReturn,
            log |-> <<>>, solo |-> TRUE, order |-> 0]

InFlight == {c \in CallIds : calls[c].pc \in {"awaiting", "queued"}}
Started == {c \in CallIds : calls[c].pc # "new"}
Done == {c \in CallIds : calls[c].pc = "done"}

\* ----------------------------------------------------- PromiseHub: methods
\* Each setter works on X = [st |-> promiseState, log |-> notifications so far]:
\* it writes one field, copies the state ({...this.promiseState}) and hands the
\* copy to every listener.
ToSet(ls) == {ls[i] : i \in 1..Len(ls)}

notifyAll(X, ls) == [X EXCEPT !.log = Append(@, [state |-> X.st, to |-> ToSet(ls)])]

\* PromiseHub.setPendingState
setPendingState(X, ls, pendingState) ==
    notifyAll([X EXCEPT !.st.pending = pendingState], ls)

\* setCurrentState that also resets the error of an earlier attempt
setPromiseCurrentState_clearsError(X, ls, newCurrentState) ==
    notifyAll([X EXCEPT !.st.currentState = newCurrentState, !.st.error = NoError], ls)

\* PromiseHub.setCurrentState
setPromiseCurrentState(X, ls, newCurrentState) ==
    notifyAll([X EXCEPT !.st.currentState = newCurrentState], ls)

\* PromiseHub.setErrorState
setErrorState(X, ls, error) ==
    notifyAll([X EXCEPT !.st.error = error], ls)

\* PromiseHub.getPendingState / getErrorState / getCurrentState
getPendingState == promiseState.pending
getErrorState == promiseState.error
getPromiseCurrentState == promiseState.currentState

\* The part after the await with the outcome and pending = false written together
\* and handed over in one notification
AfterAwait_merged(X, ls, outcome) ==
    notifyAll(IF outcome.kind = "ok"
                 THEN [X EXCEPT !.st.currentState = outcome.val, !.st.pending = FALSE]
              ELSE [X EXCEPT !.st.error = outcome.err, !.st.pending = FALSE], ls)

\* The part after the await with a catch block that also resets the value
AfterAwait_resetsOnFailure(X, ls, outcome) ==
    LET written == IF outcome.kind = "ok"
                      THEN setPromiseCurrentState(X, ls, outcome.val)
                      ELSE setErrorState(setPromiseCurrentState(X, ls, 0), ls, outcome.err)
    IN setPendingState(written, ls, FALSE)

\* The part after the await with pending reset before the outcome is written
AfterAwait_flagFirst(X, ls, outcome) ==
    LET reset == setPendingState(X, ls, FALSE)
    IN IF outcome.kind = "ok"
          THEN setPromiseCurrentState(reset, ls, outcome.val)
          ELSE setErrorState(reset, ls, outcome.err)

\* The part after the await without the finally block: pending is reset after a
\* result only
AfterAwait_noFinally(X, ls, outcome) ==
    IF outcome.kind = "ok"
       THEN setPendingState(setPromiseCurrentState(X, ls, outcome.val), ls, FALSE)
    ELSE setErrorState(X, ls, outcome.err)

\* reAction, the part after the await: try { setCurrentState(result); return result }
\* catch { setErrorState(err) } finally { setPendingState(false) }
AfterAwait(X, ls, outcome) ==
    LET written == IF outcome.kind = "ok"
                      THEN setPromiseCurrentState(X, ls, outcome.val)
                      ELSE setErrorState(X, ls, outcome.err)
    IN setPendingState(written, ls, FALSE)

\* reAction() whose catch rethrows: the returned promise rejects
ReturnOf_rethrows(outcome) ==
    IF outcome.kind = "ok" THEN [kind |-> "value", val |-> outcome.val]
    ELSE [kind |-> "rejected", val |-> 0]

\* What the promise returned by reAction() resolves with
ReturnOf(outcome) ==
    IF outcome.kind = "ok" THEN [kind |-> "value", val |-> outcome.val]
    ELSE [kind |-> "undefined", val |-> 0]

\* ------------------------------------------------------- PromiseHub: Init
\* createPromiseHub(initialState, promiseAction)
PromiseHubCreated(v) ==
    /\ promiseState = [currentState |-> v, pending |-> FALSE, error |-> NoError]
    /\ pListeners = <<>>
    /\ calls = [c \in CallIds |-> NewCall]
    /\ microtasks = <<>>

\* ---------------------------------------------------- PromiseHub: actions
\* PromiseHub.attachListener
attachPromiseListener(l) ==
    /\ pListeners' = SetAdd(pListeners, l)
    /\ UNCHANGED <<promiseState, calls, microtasks>>
    /\ UNCHANGED outsidePromise

\* detachListener with the body of the Hub.removeOnChange slip: add, not delete
detachListener_adds(l) ==
    /\ pListeners' = SetAdd(pListeners, l)
    /\ UNCHANGED <<promiseState, calls, microtasks>>
    /\ UNCHANGED outsidePromise

\* PromiseHub.detachListener
detachListener(l) ==
    /\ pListeners' = SetDelete(pListeners, l)
    /\ UNCHANGED <<promiseState, calls, microtasks>>
    /\ UNCHANGED outsidePromise

\* Bookkeeping when call c starts: every call in flight stops being alone. The
\* notification log is kept for calls that run alone only.
Overlap(cs, c) ==
    [d \in CallIds |->
        IF d # c /\ cs[d].pc \in {"awaiting", "queued"}
           THEN [cs[d] EXCEPT !.solo = FALSE, !.log = <<>>]
        ELSE IF d = c /\ ~cs[c].solo THEN [cs[d] EXCEPT !.log = <<>>]
        ELSE cs[d]]

\* Bookkeeping when call c completes: the notification log is kept for the calls in
\* flight and for the latest completed call only.
Retire(cs, c) ==
    [d \in CallIds |->
        IF d # c /\ cs[d].pc = "done" THEN [cs[d] EXCEPT !.log = <<>>, !.arg = 0]
        ELSE cs[d]]

\* reAction() with an in-flight guard: a call made while pending is ignored
reAction_guarded(c) ==
    /\ ~promiseState.pending
    /\ c \in CallIds
    /\ calls[c].pc = "new"
    /\ \A d \in CallIds : d < c => calls[d].pc # "new"
    /\ LET X == setPendingState([st |-> promiseState, log |-> <<>>], pListeners, TRUE)
       IN /\ promiseState' = X.st
          /\ calls' = Overlap([calls EXCEPT ![c] = [@ EXCEPT !.pc = "awaiting",
                                                          !.arg = X.st.currentState,
                                                          !.log = X.log,
                                                          !.solo = InFlight = {}]], c)
    /\ UNCHANGED <<pListeners, microtasks>>
    /\ UNCHANGED outsidePromise

\* reAction() that calls the action with the value the hub was created with, kept
\* aside, instead of getCurrentState()
reAction_initialValue(c) ==
    /\ c \in CallIds
    /\ calls[c].pc = "new"
    /\ \A d \in CallIds : d < c => calls[d].pc # "new"
    /\ LET X == setPendingState([st |-> promiseState, log |-> <<>>], pListeners, TRUE)
       IN /\ promiseState' = X.st
          /\ calls' = Overlap([calls EXCEPT ![c] = [@ EXCEPT !.pc = "awaiting",
                                                          !.arg = 0,
                                                          !.log = X.log,
                                                          !.solo = InFlight = {}]], c)
    /\ UNCHANGED <<pListeners, microtasks>>
    /\ UNCHANGED outsidePromise

\* reAction() up to the await: setPendingState(true), then the action is called with
\* getCurrentState() and returns a promise that has not settled.
reAction(c) ==
    /\ c \in CallIds
    /\ calls[c].pc = "new"
    /\ \A d \in CallIds : d < c => calls[d].pc # "new"
    /\ LET X == setPendingState([st |-> promiseState, log |-> <<>>], pListeners, TRUE)
       IN /\ promiseState' = X.st
          /\ calls' = Overlap([calls EXCEPT ![c] = [@ EXCEPT !.pc = "awaiting",
                                                          !.arg = X.st.currentState,
                                                          !.log = X.log,
                                                          !.solo = InFlight = {}]], c)
    /\ UNCHANGED <<pListeners, microtasks>>
    /\ UNCHANGED outsidePromise

\* reAction() with an action that throws before it returns a promise: the catch
\* and the finally run in the same turn and reAction()'s promise resolves.
reActionThrows(c, e) ==
    /\ c \in CallIds
    /\ calls[c].pc = "new"
    /\ \A d \in CallIds : d < c => calls[d].pc # "new"
    /\ LET X0 == setPendingState([st |-> promiseState, log |-> <<>>], pListeners, TRUE)
           outcome == [kind |-> "err", val |-> 0, err |-> e]
           X == AfterAwait(X0, pListeners, outcome)
       IN /\ promiseState' = X.st
          /\ calls' = Retire(Overlap([calls EXCEPT ![c] = [@ EXCEPT !.pc = "done",
                                                          !.arg = X0.st.currentState,
                                                          !.outcome = outcome,
                                                          !.ret = ReturnOf(outcome),
                                                          !.log = X.log,
                                                          !.solo = InFlight = {},
                                                          !.order = Cardinality(Done) + 1]],
                              c), c)
    /\ UNCHANGED <<pListeners, microtasks>>
    /\ UNCHANGED outsidePromise

\* The promise the action returned settles; the continuation of the await is queued.
Settle(c, outcome) ==
    /\ calls[c].pc = "awaiting"
    /\ calls' = [calls EXCEPT ![c] = [@ EXCEPT !.pc = "queued", !.outcome = outcome]]
    /\ microtasks' = Append(microtasks, c)
    /\ UNCHANGED <<promiseState, pListeners>>
    /\ UNCHANGED outsidePromise

Resolves(c) == \E v \in Results : Settle(c, [kind |-> "ok", val |-> v, err |-> NoError])

Rejects(c) == \E e \in Errors : Settle(c, [kind |-> "err", val |-> 0, err |-> e])

\* The continuation of the oldest settled await runs: the rest of reAction().
Resume ==
    /\ microtasks # <<>>
    /\ LET c == Head(microtasks)
           X == AfterAwait([st |-> promiseState, log |-> calls[c].log], pListeners,
                           calls[c].outcome)
           kept == IF calls[c].solo THEN X.log ELSE <<>>
       IN /\ promiseState' = X.st
          /\ calls' = Retire([calls EXCEPT ![c] = [@ EXCEPT !.pc = "done",
                                                         !.ret = ReturnOf(calls[c].outcome),
                                                         !.log = kept,
                                                         !.order = Cardinality(Done) + 1]],
                             c)
    /\ microtasks' = Tail(microtasks)
    /\ UNCHANGED pListeners
    /\ UNCHANGED outsidePromise

PromiseNext ==
    \/ \E l \in PListeners : attachPromiseListener(l)
    \/ \E l \in PListeners : detachListener(l)
    \/ \E c \in CallIds : reAction(c)
    \/ \E c \in CallIds, e \in Errors : reActionThrows(c, e)
    \/ \E c \in CallIds : Resolves(c)
    \/ \E c \in CallIds : Rejects(c)
    \/ Resume


\* ======================================================= listener registries
\* What a listener's body does when it is called.
Returns == [op |-> "return", target |-> Empty]
Throws == [op |-> "throw", target |-> Empty]
Behaviours ==
    {Returns, Throws} \cup
    {[op |-> o, target |-> t] : o \in {"detach", "attach"}, t \in RListeners}

AllReturn == [l \in RListeners |-> Returns]

NoRound == [done |-> FALSE, arg |-> 0, before |-> <<>>, events |-> <<>>,
            cbs |-> <<>>, threw |-> FALSE, removed |-> {}]

\* While a Set is being iterated, a deleted entry leaves an empty slot behind and
\* an added entry goes to the end of the entry list.
Live(es) == SelectSeq(es, LAMBDA x : x # Empty)

\* Array.prototype.splice in the place of Set.prototype.delete: later entries move up
Tomb_splice(es, x) == SelectSeq(es, LAMBDA y : y # x)

Tomb(es, x) == [i \in 1..Len(es) |-> IF es[i] = x THEN Empty ELSE es[i]]

\* listener(newState) for one listener; R = [entries, events, threw]
Invoke(d, R, l) ==
    LET called == [R EXCEPT !.events = Append(@, [op |-> "call", l |-> l])]
        t == d[l].target
    IN CASE d[l].op = "return" -> called
         [] d[l].op = "throw" -> [called EXCEPT !.threw = TRUE]
         [] d[l].op = "detach" ->
                [called EXCEPT !.entries = Tomb(@, t),
                               !.events = Append(@, [op |-> "detach", l |-> t])]
         [] d[l].op = "attach" ->
                [called EXCEPT !.entries = SetAdd(@, t),
                               !.events = Append(@, [op |-> "attach", l |-> t])]

\* forEach over a copy of the set taken when the round starts
RECURSIVE forEachCopy(_, _, _)
forEachCopy(d, R, copy) ==
    IF R.threw \/ copy = <<>> THEN R
    ELSE forEachCopy(d, Invoke(d, R, Head(copy)), Tail(copy))

forEach_snapshot(d, R, i) == forEachCopy(d, R, R.entries)

\* this.listeners.forEach(listener => listener(newState)), from entry i on: an
\* entry deleted before it is reached is skipped, an entry added during the
\* iteration is reached, and an exception leaves the loop.
RECURSIVE forEach(_, _, _)
forEach(d, R, i) ==
    IF R.threw \/ i > Len(R.entries) THEN R
    ELSE IF R.entries[i] = Empty THEN forEach(d, R, i + 1)
    ELSE forEach(d, Invoke(d, R, R.entries[i]), i + 1)

\* The listeners a round attached or detached
Touched(events) == {events[i].l : i \in {j \in 1..Len(events) : events[j].op # "call"}}

\* The listeners a round called, in order
CallsOf(events) ==
    LET cs == SelectSeq(events, LAMBDA e : e.op = "call")
    IN [i \in 1..Len(cs) |-> cs[i].l]

Count(s, x) == Cardinality({i \in 1..Len(s) : s[i] = x})

\* new Hub(...) / new PromiseHub(...), and the functions that will be attached
RegistryCreated(k, d) ==
    /\ kind = k
    /\ does = d
    /\ regListeners = <<>>
    /\ regOnChange = <<>>
    /\ regValue = 0
    /\ lastCb = [c \in Callbacks |-> "none"]
    /\ attachCalls = [l \in RListeners |-> 0]
    /\ round = NoRound

\* Hub.attachListener / PromiseHub.attachListener
attach(l) ==
    /\ regListeners' = SetAdd(regListeners, l)
    /\ attachCalls' = [attachCalls EXCEPT ![l] = IF @ = 0 THEN 1 ELSE 2]
    /\ round' = NoRound
    /\ UNCHANGED <<kind, does, regOnChange, regValue, lastCb>>
    /\ UNCHANGED outsideRegistry

\* Hub.removeListener / PromiseHub.detachListener
detach(l) ==
    /\ regListeners' = SetDelete(regListeners, l)
    /\ attachCalls' = [attachCalls EXCEPT ![l] = 0]
    /\ round' = NoRound
    /\ UNCHANGED <<kind, does, regOnChange, regValue, lastCb>>
    /\ UNCHANGED outsideRegistry

\* Hub.onChange / PromiseHub.onChange
onChange(c) ==
    /\ regOnChange' = SetAdd(regOnChange, c)
    /\ lastCb' = [lastCb EXCEPT ![c] = "onChange"]
    /\ round' = NoRound
    /\ UNCHANGED <<kind, does, regListeners, regValue, attachCalls>>
    /\ UNCHANGED outsideRegistry

\* Hub.removeOnChange does this.onChangeListeners.add(callback);
\* PromiseHub.removeOnChange does this.onChangeListeners.delete(callback).
removeOnChange(c) ==
    /\ regOnChange' = IF kind = "Hub" THEN SetAdd(regOnChange, c)
                      ELSE SetDelete(regOnChange, c)
    /\ lastCb' = [lastCb EXCEPT ![c] = "removeOnChange"]
    /\ round' = NoRound
    /\ UNCHANGED <<kind, does, regListeners, regValue, attachCalls>>
    /\ UNCHANGED outsideRegistry

\* Hub.notifyListener(v), or a PromiseHub setter called with v: the setter writes
\* its field first; then listeners.forEach, then onChangeListeners.forEach. No
\* call is wrapped in try/catch, so a listener's exception leaves the method.
notify(v) ==
    LET R == forEach(does, [entries |-> regListeners, events |-> <<>>, threw |-> FALSE], 1)
    IN /\ regValue' = IF kind = "PromiseHub" THEN v ELSE regValue
       /\ regListeners' = Live(R.entries)
       /\ round' = [done |-> TRUE, arg |-> v, before |-> regListeners,
                    events |-> R.events,
                    cbs |-> IF R.threw THEN <<>> ELSE regOnChange,
                    threw |-> R.threw,
                    removed |-> {c \in Callbacks : lastCb[c] = "removeOnChange"}]
       /\ attachCalls' = [l \in RListeners |->
                             IF l \in Touched(R.events)
                                THEN (IF Has(Live(R.entries), l) THEN 1 ELSE 0)
                             ELSE attachCalls[l]]
       /\ UNCHANGED <<kind, does, regOnChange, lastCb>>
       /\ UNCHANGED outsideRegistry

RegistryNext ==
    \/ \E l \in RListeners : attach(l)
    \/ \E l \in RListeners : detach(l)
    \/ \E c \in Callbacks : onChange(c)
    \/ \E c \in Callbacks : removeOnChange(c)
    \/ \E v \in Results : notify(v)

\* ========================================================= suspense consumer
Idle == [currentState |-> 0, pending |-> FALSE, error |-> NoError]

\* How a render attempt ended: by throwing a promise or by returning, and what
\* promiseHub.getPendingState() was at that moment
NoRender == [made |-> FALSE, threw |-> FALSE, hubPending |-> FALSE]

Rendered(threw, hubPending) == [made |-> TRUE, threw |-> threw, hubPending |-> hubPending]

NotInTree(imm) ==
    [immediate |-> imm, phase |-> "absent", state |-> Idle, resolveRef |-> 0,
     dirty |-> FALSE, suspended |-> FALSE, last |-> NoRender,
     hasRenderedRef |-> FALSE, ownCalls |-> 0]

SInFlight == {c \in CallIds : sCalls[c].pc \in {"awaiting", "queued"}}

\* createPromiseHub(initialState, promiseAction); the component is not rendered yet
SuspenseCreated(v, imm) ==
    /\ sState = [currentState |-> v, pending |-> FALSE, error |-> NoError]
    /\ sListeners = <<>>
    /\ sCalls = [c \in CallIds |-> [pc |-> "new", outcome |-> NoOutcome]]
    /\ sQueue = <<>>
    /\ consumer = NotInTree(imm)
    /\ promises = <<>>

\* setState(newState) for every notification in X.log: React batches the calls of
\* one turn, so the next render sees the last state handed over, and a re-render
\* is scheduled.
Dispatched(C, ls, X) ==
    IF Has(ls, SetState) /\ X.log # <<>>
       THEN [C EXCEPT !.state = X.log[Len(X.log)].state, !.dirty = TRUE]
    ELSE C

\* promiseResolveFnRef.current() for the promise p
Resolve(ps, p, hubPending) ==
    [ps EXCEPT ![p] = IF @ # "unresolved" THEN "twice"
                      ELSE IF hubPending THEN "early" ELSE "resolved"]

\* The suspense branch with an executor that stores the new resolver without
\* calling the one stored before
SuspenseBranch_overwrites(C, ps, hubPending) ==
    IF C.state.pending
       THEN [c |-> [C EXCEPT !.resolveRef = Len(ps) + 1], threw |-> TRUE,
             ps |-> Append(ps, "unresolved")]
    ELSE [c |-> [C EXCEPT !.resolveRef = 0], threw |-> FALSE,
          ps |-> IF C.resolveRef # 0 THEN Resolve(ps, C.resolveRef, hubPending) ELSE ps]

\* The suspense branch of the hook body. R = [c, ps, threw]: the component, the
\* promises thrown so far, and whether this render throws.
\*   if (suspense && state.pending) throw new Promise(resolve => {
\*       if (ref.current instanceof Function) ref.current();  ref.current = resolve })
\*   else if (suspense && !state.pending && ref.current instanceof Function) {
\*       ref.current();  ref.current = null }
SuspenseBranch(C, ps, hubPending) ==
    LET freed == IF C.resolveRef # 0 THEN Resolve(ps, C.resolveRef, hubPending) ELSE ps
    IN IF C.state.pending
          THEN [c |-> [C EXCEPT !.resolveRef = Len(ps) + 1], threw |-> TRUE,
                ps |-> Append(freed, "unresolved")]
       ELSE [c |-> [C EXCEPT !.resolveRef = 0], threw |-> FALSE, ps |-> freed]

\* First render of a new instance: useRef(null), useState({currentState:
\* getCurrentState(), pending: getPendingState(), error: getErrorState()}), then the
\* suspense branch. When the render throws, React discards the instance with its
\* refs and state, and no effect runs; it will try again when the thrown promise
\* resolves.
FirstRender ==
    /\ consumer.phase = "absent"
    /\ sState.pending => Len(promises) < MaxPromises
    /\ LET fresh == [NotInTree(consumer.immediate) EXCEPT !.state = sState]
           R == SuspenseBranch(fresh, promises, sState.pending)
           seen == Rendered(R.threw, sState.pending)
       IN /\ promises' = R.ps
          /\ consumer' = IF R.threw
                            THEN [NotInTree(consumer.immediate) EXCEPT
                                      !.suspended = TRUE, !.last = seen]
                         ELSE [R.c EXCEPT !.phase = "rendered", !.last = seen]
    /\ UNCHANGED <<sState, sListeners, sCalls, sQueue>>
    /\ UNCHANGED outsideSuspense

\* reAction() up to the await, on the consumer's hub
Trigger(c, C, ls) ==
    LET X == setPendingState([st |-> sState, log |-> <<>>], ls, TRUE)
    IN /\ sState' = X.st
       /\ sCalls' = [sCalls EXCEPT ![c].pc = "awaiting"]
       /\ consumer' = Dispatched(C, ls, X)

NextNew(c) == sCalls[c].pc = "new" /\ \A d \in CallIds : d < c => sCalls[d].pc # "new"

\* The immediate effect without its hasRenderedRef guard
Proceeds_unguarded(C) == C.immediate

\* The immediate effect goes past  if (!immediate || hasRenderedRef.current) return;
Proceeds(C) == C.immediate /\ ~C.hasRenderedRef

\* The immediate effect, run for the instance C with the listeners ls attached:
\*   if (!immediate || hasRenderedRef.current) return;
\*   hasRenderedRef.current = true;  promiseHub.reAction();
ImmediateEffect(C, ls) ==
    IF Proceeds(C)
       THEN \E c \in CallIds :
               /\ NextNew(c)
               /\ Trigger(c, [C EXCEPT !.hasRenderedRef = TRUE,
                                       !.ownCalls = IF @ < 2 THEN @ + 1 ELSE 2], ls)
    ELSE consumer' = C /\ UNCHANGED <<sState, sCalls>>

\* The effects of the first committed render, in order:
\*   promiseHub.attachListener(setState)
\*   the immediate effect
Effects ==
    /\ consumer.phase = "rendered"
    /\ sListeners' = SetAdd(sListeners, SetState)
    /\ ImmediateEffect([consumer EXCEPT !.phase = "mounted"], sListeners')
    /\ UNCHANGED <<sQueue, promises>>
    /\ UNCHANGED outsideSuspense

\* A render with another value of config.immediate that returns (a render that
\* throws is not committed), followed by the immediate effect, which has
\* userConfig.immediate among its dependencies.
ImmediateChanges ==
    /\ consumer.phase = "mounted"
    /\ ~consumer.state.pending
    /\ LET R == SuspenseBranch(consumer, promises, sState.pending)
           C == [R.c EXCEPT !.immediate = ~consumer.immediate,
                            !.suspended = FALSE,
                            !.dirty = FALSE,
                            !.last = Rendered(FALSE, sState.pending)]
       IN /\ promises' = R.ps
          /\ ImmediateEffect(C, sListeners)
    /\ UNCHANGED <<sListeners, sQueue>>
    /\ UNCHANGED outsideSuspense

\* A later render of the mounted instance, scheduled by setState, by the
\* resolution of a promise it threw, or by a render of its parent. A render that
\* throws is not committed, and the instance keeps its state, refs and effects.
Render ==
    /\ consumer.phase = "mounted"
    /\ consumer.state.pending => Len(promises) < MaxPromises
    /\ LET R == SuspenseBranch(consumer, promises, sState.pending)
       IN /\ promises' = R.ps
          /\ consumer' = [R.c EXCEPT
                            !.suspended = R.threw,
                            !.dirty = R.threw /\ consumer.resolveRef # 0,
                            !.last = Rendered(R.threw, sState.pending)]
    /\ UNCHANGED <<sState, sListeners, sCalls, sQueue>>
    /\ UNCHANGED outsideSuspense

\* The component leaves the tree: promiseHub.detachListener(setState)
Leave ==
    /\ consumer.phase = "mounted"
    /\ sListeners' = SetDelete(sListeners, SetState)
    /\ consumer' = NotInTree(consumer.immediate)
    /\ UNCHANGED <<sState, sCalls, sQueue, promises>>
    /\ UNCHANGED outsideSuspense

\* promiseHub.reAction() called by other code (an event handler, another component)
ReActionCalled(c) ==
    /\ NextNew(c)
    /\ Trigger(c, consumer, sListeners)
    /\ UNCHANGED <<sListeners, sQueue, promises>>
    /\ UNCHANGED outsideSuspense

\* The promise the action returned settles
ActionSettles(c, outcome) ==
    /\ sCalls[c].pc = "awaiting"
    /\ sCalls' = [sCalls EXCEPT ![c] = [pc |-> "queued", outcome |-> outcome]]
    /\ sQueue' = Append(sQueue, c)
    /\ UNCHANGED <<sState, sListeners, consumer, promises>>
    /\ UNCHANGED outsideSuspense

ActionResolves(c) ==
    \E v \in Results : ActionSettles(c, [kind |-> "ok", val |-> v, err |-> NoError])

ActionRejects(c) ==
    \E e \in Errors : ActionSettles(c, [kind |-> "err", val |-> 0, err |-> e])

\* The rest of reAction() runs for the oldest settled await
Continue ==
    /\ sQueue # <<>>
    /\ LET c == Head(sQueue)
           X == AfterAwait([st |-> sState, log |-> <<>>], sListeners, sCalls[c].outcome)
       IN /\ sState' = X.st
          /\ sCalls' = [sCalls EXCEPT ![c] = [pc |-> "done", outcome |-> NoOutcome]]
          /\ consumer' = Dispatched(consumer, sListeners, X)
    /\ sQueue' = Tail(sQueue)
    /\ UNCHANGED <<sListeners, promises>>
    /\ UNCHANGED outsideSuspense

SuspenseNext ==
    \/ FirstRender
    \/ Effects
    \/ Render
    \/ ImmediateChanges
    \/ Leave
    \/ \E c \in CallIds : ReActionCalled(c)
    \/ \E c \in CallIds : ActionResolves(c)
    \/ \E c \in CallIds : ActionRejects(c)
    \/ Continue

\* ================================================================ useDebounce
NoTimers == [timers |-> <<>>, held |-> FALSE]

\* clearTimeout without effect: the timer set by the previous call stays
clearTimeout_keeps(D) == D

\* clearTimeout(timeoutRef.current): cancels that timer if it has not run yet
clearTimeout(D) ==
    IF D.held THEN [D EXCEPT !.timers = SubSeq(@, 1, Len(@) - 1), !.held = FALSE]
    ELSE D

\* timeoutRef.current = setTimeout(() => debounceAction(...values), delay)
setTimeout(D, action, values) ==
    [timers |-> Append(D.timers, [left |-> Delay, action |-> action, values |-> values]),
     held |-> TRUE]

\* The function useDebounce returns, as made by a render with debounceAction = action
debounce(D, action, values) == setTimeout(clearTimeout(D), action, values)

\* One unit of time passes for every timer
Elapse(D) ==
    [D EXCEPT !.timers = [i \in 1..Len(@) |->
                             [@[i] EXCEPT !.left = IF @ > 0 THEN @ - 1 ELSE 0]]]

\* Timer i runs and is gone
Expire(D, i) ==
    [timers |-> SubSeq(D.timers, 1, i - 1) \o SubSeq(D.timers, i + 1, Len(D.timers)),
     held |-> D.held /\ i # Len(D.timers)]

\* First render of the component
DebounceCreated(a) ==
    /\ debouncer = NoTimers
    /\ debounceAction = a
    /\ lastCall = [made |-> FALSE, values |-> 0]
    /\ sinceCall = 0
    /\ ran = <<>>
    /\ burst = 0

\* The component renders again with another debounceAction: useCallback makes a
\* new function, timeoutRef stays
Rerender(a) ==
    /\ a # debounceAction
    /\ debounceAction' = a
    /\ UNCHANGED <<debouncer, lastCall, sinceCall, ran, burst>>
    /\ UNCHANGED outsideDebounce

\* The function returned by the latest render is called with values
Call(values) ==
    /\ burst < MaxBurst
    /\ debouncer' = debounce(debouncer, debounceAction, values)
    /\ lastCall' = [made |-> TRUE, values |-> values]
    /\ sinceCall' = 0
    /\ ran' = <<>>
    /\ burst' = burst + 1
    /\ UNCHANGED debounceAction
    /\ UNCHANGED outsideDebounce

\* One unit of time passes. A timer that is due runs before more time passes.
Tick ==
    /\ \A i \in 1..Len(debouncer.timers) : debouncer.timers[i].left > 0
    /\ sinceCall < Delay
    /\ debouncer' = Elapse(debouncer)
    /\ sinceCall' = sinceCall + 1
    /\ UNCHANGED <<debounceAction, lastCall, ran, burst>>
    /\ UNCHANGED outsideDebounce

\* A timer whose delay has passed runs: debounceAction(...values)
Fire(i) ==
    /\ i \in 1..Len(debouncer.timers)
    /\ debouncer.timers[i].left = 0
    /\ debouncer' = Expire(debouncer, i)
    /\ ran' = Append(ran, [action |-> debouncer.timers[i].action,
                           values |-> debouncer.timers[i].values,
                           after |-> burst])
    /\ burst' = 0
    /\ UNCHANGED <<debounceAction, lastCall, sinceCall>>
    /\ UNCHANGED outsideDebounce

DebounceNext ==
    \/ \E a \in DebounceActions : Rerender(a)
    \/ \E values \in Values : Call(values)
    \/ Tick
    \/ \E i \in 1..MaxBurst : Fire(i)

\* ========================================================= usePersistentState
Hook(i) == IF i = "r1" THEN "useReadPersistentState" ELSE "usePersistentState"

NoEntry == [dataType |-> "none", value |-> 0]

\* serialize: numbers take the last branch, JSON.stringify inside a typed wrapper
serialize(data) == [dataType |-> "simple", value |-> data]

\* deserialize: unwraps; an entry of another type is not produced here
deserialize(data) == IF data.dataType = "simple" THEN data.value ELSE Undefined

\* if(... && event.data.storageData.value)
Truthy(value) == value # 0

StorageBroadcast(key, value) == [key |-> key, value |-> value]

\* channelRef.current?.postMessage(comm): a message event for every other open
\* channel of the origin with the same name; none when i has no channel yet
postMessage(I, box, i, comm) ==
    [j \in Instances |->
        IF /\ I[i].phase = "mounted"
           /\ j # i
           /\ I[j].phase = "mounted"
           /\ channelId[j] = channelId[i]
        THEN Append(box[j], comm)
        ELSE box[j]]

\* handleStorageChange, made by the first render
handleStorageChange(state, comm) ==
    IF comm.key = FirstKey /\ Truthy(comm.value) THEN comm.value ELSE state

\* handleSaveToStorage(key, value)
handleSaveToStorage(S, key, value) == [S EXCEPT ![key] = serialize(value)]

PersistCreated(clear, ids, stored) ==
    /\ storage = [k \in Keys |-> IF k = FirstKey THEN stored ELSE NoEntry]
    /\ inst = [i \in Instances |->
                  [phase |-> "new", key |-> FirstKey, state |-> Undefined]]
    /\ savers = [i \in Instances |-> NoTimers]
    /\ inbox = [i \in Instances |-> <<>>]
    /\ channelId = ids
    /\ clearStorageOnUnMount = clear
    /\ lastSet = [made |-> FALSE, key |-> FirstKey, value |-> 0, seen |-> {}]

\* broadcastEvent(key, newState) of instance i
broadcastEvent(i, I, key, newState) ==
    /\ inbox' = postMessage(I, inbox, i, StorageBroadcast(key, newState))
    /\ savers' = [savers EXCEPT ![i] = debounce(@, "handleSaveToStorage",
                                                 <<key, newState>>)]

\* First render of instance i and its mount effect: the state comes from the
\* storage entry if there is one; without one usePersistentState schedules
\* the save of its initial state. Then the channel is opened.
PersistMount(i) ==
    /\ inst[i].phase = "new"
    /\ LET data == storage[FirstKey]
           first == IF Hook(i) = "usePersistentState" THEN InitialState ELSE Undefined
       IN  /\ inst' = [inst EXCEPT ![i] =
                          [phase |-> "mounted", key |-> FirstKey,
                           state |-> IF data # NoEntry THEN deserialize(data) ELSE first]]
           /\ IF Hook(i) = "usePersistentState" /\ data = NoEntry
              THEN broadcastEvent(i, inst, FirstKey, first)
              ELSE UNCHANGED <<inbox, savers>>
    /\ UNCHANGED <<storage, channelId, clearStorageOnUnMount, lastSet>>
    /\ UNCHANGED outsidePersist

\* The setter of w1 is called with newState. updateState is made once
\* (deps []), so its broadcastEvent is the one of the first render.
PersistUpdateState(newState) ==
    /\ inst["w1"].phase = "mounted"
    /\ \A j \in Instances : Len(inbox[j]) < MaxInbox
    /\ inst' = [inst EXCEPT !["w1"].state = newState]
    /\ broadcastEvent("w1", inst, FirstKey, newState)
    /\ lastSet' = [made |-> TRUE, key |-> inst["w1"].key, value |-> newState,
                   seen |-> {j \in Instances \ {"w1"} : inst[j].phase = "mounted"}]
    /\ UNCHANGED <<storage, channelId, clearStorageOnUnMount>>
    /\ UNCHANGED outsidePersist

\* w1 is rendered with another key: the effect on [key] removes the entry of
\* the previous key and broadcasts the initial state under the new key
KeyChanges(key) ==
    /\ inst["w1"].phase = "mounted"
    /\ key # inst["w1"].key
    /\ \A j \in Instances : Len(inbox[j]) < MaxInbox
    /\ storage' = [storage EXCEPT ![inst["w1"].key] = NoEntry]
    /\ inst' = [inst EXCEPT !["w1"].key = key]
    /\ broadcastEvent("w1", inst, key, InitialState)
    /\ UNCHANGED <<channelId, clearStorageOnUnMount, lastSet>>
    /\ UNCHANGED outsidePersist

\* w1 unmounts: the cleanup of the mount effect (deps [], so the key of the
\* first render) closes the channel and removes the entry if configured
PersistUnmount ==
    /\ inst["w1"].phase = "mounted"
    /\ inst' = [inst EXCEPT !["w1"].phase = "unmounted"]
    /\ inbox' = [inbox EXCEPT !["w1"] = <<>>]
    /\ storage' = IF clearStorageOnUnMount THEN [storage EXCEPT ![FirstKey] = NoEntry]
                  ELSE storage
    /\ UNCHANGED <<savers, channelId, clearStorageOnUnMount, lastSet>>
    /\ UNCHANGED outsidePersist

\* The message event at the head of i's queue is handled
Deliver(i) ==
    /\ inbox[i] # <<>>
    /\ inst[i].phase = "mounted"
    /\ inst' = [inst EXCEPT ![i].state = handleStorageChange(@, Head(inbox[i]))]
    /\ inbox' = [inbox EXCEPT ![i] = Tail(@)]
    /\ UNCHANGED <<storage, savers, channelId, clearStorageOnUnMount, lastSet>>
    /\ UNCHANGED outsidePersist

Due(i) == savers[i].timers # <<>> /\ savers[i].timers[1].left = 0

\* One unit of time passes while some save is scheduled and none is due
SaveDelayPasses ==
    /\ \E i \in Instances : savers[i].timers # <<>>
    /\ \A i \in Instances : ~Due(i)
    /\ savers' = [i \in Instances |-> Elapse(savers[i])]
    /\ UNCHANGED <<storage, inst, inbox, channelId, clearStorageOnUnMount, lastSet>>
    /\ UNCHANGED outsidePersist

\* The save scheduled by instance i runs: handleSaveToStorage(key, value)
Save(i) ==
    /\ Due(i)
    /\ storage' = handleSaveToStorage(storage, savers[i].timers[1].values[1],
                                      savers[i].timers[1].values[2])
    /\ savers' = [savers EXCEPT ![i] = Expire(@, 1)]
    /\ UNCHANGED <<inst, inbox, channelId, clearStorageOnUnMount, lastSet>>
    /\ UNCHANGED outsidePersist

PersistNext ==
    \/ \E i \in Instances : PersistMount(i)
    \/ \E newState \in Results : PersistUpdateState(newState)
    \/ \E key \in Keys : KeyChanges(key)
    \/ PersistUnmount
    \/ \E i \in Instances : Deliver(i)
    \/ SaveDelayPasses
    \/ \E i \in Instances : Save(i)

\* useId is unique within a tree; the same component of the other tab has
\* the same id when both tabs rendered the same components in the same order
PersistIdle ==
    PersistCreated(FALSE, [i \in Instances |-> IF i = "r1" THEN "r1" ELSE "r0"], NoEntry)

\* =============================================================== useStoredHub
StoredKey == "counter"

StoredHubCreated(v, stored) ==
    /\ storedHub = [currentState |-> v, listeners |-> <<>>]
    /\ consumers = [c \in Consumers |->
                       [phase |-> "new", state |-> 0, queue |-> <<>>, changed |-> FALSE]]
    /\ storedEntry = stored
    /\ storedSavers = [c \in Consumers |-> NoTimers]
    /\ setterCalls = [made |-> FALSE, expected |-> v, loaded |-> FALSE,
                      partial |-> FALSE, byFn |-> FALSE]

\* setState of useState, called with a value (the mount effect of
\* usePersistentState) or with the updater of its updateState (save = TRUE)
Enqueue(C, value, save) == [C EXCEPT !.queue = Append(@, [value |-> value, save |-> save])]

\* The setter of usePersistentState, the listener on the hub: a component that
\* has not rendered gets nothing
RECURSIVE NotifyStored(_, _, _)
NotifyStored(Cs, ls, nState) ==
    IF ls = <<>> THEN Cs
    ELSE NotifyStored([Cs EXCEPT ![Head(ls)] = Enqueue(@, nState, TRUE)], Tail(ls), nState)

\* The queued updaters run in order at the render; the updater of updateState
\* calls broadcastEvent(key, nState), which schedules the save. The channel of
\* the consumer has a name of its own, so the message reaches no component of
\* this tab.
RECURSIVE RunUpdaters(_, _)
RunUpdaters(D, queue) ==
    IF queue = <<>> THEN D
    ELSE RunUpdaters(IF Head(queue).save
                        THEN debounce(D, "handleSaveToStorage",
                                      <<StoredKey, Head(queue).value>>)
                        ELSE D,
                     Tail(queue))

\* First render of consumer c, usePersistentState(key, hub.getCurrentState()),
\* and its effects: the state is read from the storage entry, or the save of
\* the initial state is scheduled; hub.attachListener(setState);
\* hub.setCurrentState(state)
StoredMount(c) ==
    /\ consumers[c].phase = "new"
    /\ LET state == storedHub.currentState
           C == [phase |-> "mounted", state |-> state, queue |-> <<>>, changed |-> FALSE]
       IN  /\ consumers' = [consumers EXCEPT ![c] =
                               IF storedEntry # NoEntry
                                  THEN Enqueue(C, deserialize(storedEntry), FALSE)
                                  ELSE C]
           /\ storedSavers' = [storedSavers EXCEPT ![c] =
                                  IF storedEntry # NoEntry THEN @
                                  ELSE debounce(@, "handleSaveToStorage",
                                                <<StoredKey, state>>)]
           /\ storedHub' = [currentState |-> state,
                            listeners |-> SetAdd(storedHub.listeners, c)]
           /\ setterCalls' = [setterCalls EXCEPT !.loaded = @ \/ storedEntry # NoEntry]
    /\ UNCHANGED storedEntry
    /\ UNCHANGED outsideStored

\* The body of the useStoredHub updater once nState is known:
\* hub.notifyListener(nState)
StoredPublish(nState, expected, byFn) ==
    /\ consumers' = NotifyStored(consumers, storedHub.listeners, nState)
    /\ setterCalls' = [setterCalls EXCEPT
                          !.made = TRUE,
                          !.expected = expected,
                          !.byFn = @ \/ byFn,
                          !.partial = @ \/ \E d \in Consumers : consumers[d].phase = "new"]
    /\ UNCHANGED <<storedHub, storedEntry, storedSavers>>
    /\ UNCHANGED outsideStored

\* The setter returned to consumer c is called with a value
StoredUpdate(c, v) ==
    /\ consumers[c].phase = "mounted"
    /\ \A d \in Consumers : Len(consumers[d].queue) < MaxQueue
    /\ StoredPublish(v, v, FALSE)

\* The setter returned to consumer c is called with a function:
\* newState(hub.getCurrentState())
StoredUpdateFn(c, f) ==
    /\ consumers[c].phase = "mounted"
    /\ \A d \in Consumers : Len(consumers[d].queue) < MaxQueue
    /\ ApplyPrev(f, setterCalls.expected) \in Values
    /\ ApplyPrev(f, getCurrentState([hub |-> storedHub], "hub")) \in Values
    /\ StoredPublish(ApplyPrev(f, getCurrentState([hub |-> storedHub], "hub")),
                     ApplyPrev(f, setterCalls.expected), TRUE)

\* React renders consumer c with its queued state updates
StoredRender(c) ==
    /\ consumers[c].queue # <<>>
    /\ LET q == consumers[c].queue
           nState == q[Len(q)].value
       IN  /\ consumers' = [consumers EXCEPT ![c] =
                               [@ EXCEPT !.state = nState, !.queue = <<>>,
                                         !.changed = @ \/ nState # consumers[c].state]]
           /\ storedSavers' = [storedSavers EXCEPT ![c] = RunUpdaters(@, q)]
    /\ UNCHANGED <<storedHub, storedEntry, setterCalls>>
    /\ UNCHANGED outsideStored

\* The effect on [state] of consumer c: hub.setCurrentState(state)
StoredEffect(c) ==
    /\ consumers[c].changed
    /\ storedHub' = [storedHub EXCEPT !.currentState = consumers[c].state]
    /\ consumers' = [consumers EXCEPT ![c].changed = FALSE]
    /\ UNCHANGED <<storedEntry, storedSavers, setterCalls>>
    /\ UNCHANGED outsideStored

\* The save scheduled by consumer c runs, its delay being over; how long the
\* other steps take is left open
StoredSave(c) ==
    /\ storedSavers[c].timers # <<>>
    /\ storedEntry' = serialize(storedSavers[c].timers[1].values[2])
    /\ storedSavers' = [storedSavers EXCEPT ![c] = Expire(@, 1)]
    /\ UNCHANGED <<storedHub, consumers, setterCalls>>
    /\ UNCHANGED outsideStored

StoredNext ==
    \/ \E c \in Consumers : StoredMount(c)
    \/ \E c \in Consumers, v \in Values : StoredUpdate(c, v)
    \/ \E c \in Consumers, f \in PrevStateActions : StoredUpdateFn(c, f)
    \/ \E c \in Consumers : StoredRender(c)
    \/ \E c \in Consumers : StoredEffect(c)
    \/ \E c \in Consumers : StoredSave(c)

StoredIdle == StoredHubCreated(0, NoEntry)

\* ========================================================== re-entrant update
ReentrantCreated(l, on, with) ==
    /\ rnListeners = <<>>
    /\ republish = [listener |-> l, on |-> on, with |-> with]
    /\ rnCalls = <<>>

\* Hub.notifyListener(newState) with listeners ls still to call: each listener
\* records the call; the republishing listener, called with `on`, then calls
\* the updater, whose hub.notifyListener(with) goes over all listeners before
\* it returns into the loop of the caller.
RECURSIVE NotifyNested(_, _, _, _, _)
NotifyNested(all, ls, newState, depth, T) ==
    IF ls = <<>> THEN T
    ELSE LET l == Head(ls)
             called == Append(T, [listener |-> l, value |-> newState, depth |-> depth])
             returned == IF l = republish.listener /\ newState = republish.on
                            THEN NotifyNested(all, all, republish.with, depth + 1, called)
                         ELSE called
         IN NotifyNested(all, Tail(ls), newState, depth, returned)

\* Hub.attachListener
NestedAttach(l) ==
    /\ ~Has(rnListeners, l)
    /\ rnListeners' = SetAdd(rnListeners, l)
    /\ UNCHANGED <<republish, rnCalls>>
    /\ UNCHANGED outsideReentrant

\* Hub.removeListener
NestedRemove(l) ==
    /\ Has(rnListeners, l)
    /\ rnListeners' = SetDelete(rnListeners, l)
    /\ UNCHANGED <<republish, rnCalls>>
    /\ UNCHANGED outsideReentrant

\* The useHub updater is called from outside any listener with a value
NestedUpdate(v) ==
    /\ rnCalls' = NotifyNested(rnListeners, rnListeners, v, 1, <<>>)
    /\ UNCHANGED <<rnListeners, republish>>
    /\ UNCHANGED outsideReentrant

ReentrantNext ==
    \/ \E l \in RListeners : NestedAttach(l)
    \/ \E l \in RListeners : NestedRemove(l)
    \/ \E v \in Values : NestedUpdate(v)

ReentrantIdle == ReentrantCreated("A", 0, 1)

\* ============================================ PromiseHub, throwing listener
ThrowNewCall == [pc |-> "new", outcome |-> NoOutcome, ret |-> "none"]

ThrowInFlight == {c \in CallIds : thCalls[c].pc \in {"awaiting", "queued"}}

ThrowHubCreated(v, attached, throwsOn) ==
    /\ thState = [currentState |-> v, pending |-> FALSE, error |-> NoError]
    /\ thAttached = attached
    /\ thThrowsOn = throwsOn
    /\ thCalls = [c \in CallIds |-> ThrowNewCall]
    /\ thQueue = <<>>

\* this.listeners.forEach(listener => listener(newState)) ends with the
\* listener's exception
ListenerThrows(n) == thAttached /\ n \in thThrowsOn

\* reAction after the await, as [st, ret]. Each setter writes its field before
\* it calls the listeners. An exception of setCurrentState(result) is caught
\* by the catch like a rejection of the action; an exception of setErrorState
\* leaves the catch block, one of setPendingState(false) leaves the finally
\* block, and either makes the promise of reAction() reject.
ThrowAfterAwait(st, outcome) ==
    LET inTry == IF outcome.kind = "ok"
                    THEN [st EXCEPT !.currentState = outcome.val]
                 ELSE st
        caught == IF outcome.kind = "err" THEN outcome.err
                  ELSE IF ListenerThrows("value") THEN ListenerError
                  ELSE NoError
        inCatch == IF caught # NoError THEN [inTry EXCEPT !.error = caught] ELSE inTry
        escapes == caught # NoError /\ ListenerThrows("error")
        inFinally == [inCatch EXCEPT !.pending = FALSE]
    IN [st |-> inFinally,
        ret |-> IF escapes \/ ListenerThrows("settled") THEN "rejected"
                ELSE IF caught # NoError THEN "undefined"
                ELSE "value"]

\* PromiseHub.attachListener / detachListener with the listener
ThrowAttach ==
    /\ thAttached' = ~thAttached
    /\ UNCHANGED <<thState, thThrowsOn, thCalls, thQueue>>
    /\ UNCHANGED outsideThrow

\* reAction() up to the await. setPendingState(true) is outside the try: if
\* the listener throws there, the action is not called and the promise of
\* reAction() rejects.
ThrowReAction(c) ==
    /\ thCalls[c].pc = "new"
    /\ \A d \in CallIds : d < c => thCalls[d].pc # "new"
    /\ thState' = [thState EXCEPT !.pending = TRUE]
    /\ thCalls' = [thCalls EXCEPT ![c] =
                      IF ListenerThrows("pending")
                         THEN [@ EXCEPT !.pc = "done", !.ret = "rejected"]
                      ELSE [@ EXCEPT !.pc = "awaiting"]]
    /\ UNCHANGED <<thAttached, thThrowsOn, thQueue>>
    /\ UNCHANGED outsideThrow

\* The promise the action returned settles
ThrowSettle(c, outcome) ==
    /\ thCalls[c].pc = "awaiting"
    /\ thCalls' = [thCalls EXCEPT ![c] = [@ EXCEPT !.pc = "queued", !.outcome = outcome]]
    /\ thQueue' = Append(thQueue, c)
    /\ UNCHANGED <<thState, thAttached, thThrowsOn>>
    /\ UNCHANGED outsideThrow

ThrowResolves(c) ==
    \E v \in Results : ThrowSettle(c, [kind |-> "ok", val |-> v, err |-> NoError])

ThrowRejects(c) ==
    \E e \in Errors : ThrowSettle(c, [kind |-> "err", val |-> 0, err |-> e])

\* The continuation of the oldest settled await runs
ThrowResume ==
    /\ thQueue # <<>>
    /\ LET c == Head(thQueue)
           X == ThrowAfterAwait(thState, thCalls[c].outcome)
       IN /\ thState' = X.st
          /\ thCalls' = [thCalls EXCEPT ![c] = [@ EXCEPT !.pc = "done", !.ret = X.ret]]
    /\ thQueue' = Tail(thQueue)
    /\ UNCHANGED <<thAttached, thThrowsOn>>
    /\ UNCHANGED outsideThrow

ThrowNext ==
    \/ ThrowAttach
    \/ \E c \in CallIds : ThrowReAction(c)
    \/ \E c \in CallIds : ThrowResolves(c)
    \/ \E c \in CallIds : ThrowRejects(c)
    \/ ThrowResume

ThrowIdle == ThrowHubCreated(0, FALSE, {})

\* ========================================================== specifications
\* The hubs and hooks are independent objects: each specification runs one of
\* them and leaves the others as constructed.
HubInit ==
    /\ \E v \in Values : HubCreated(v)
    /\ PromiseHubCreated(0)
    /\ RegistryCreated("Hub", AllReturn)
    /\ SuspenseCreated(0, FALSE)
    /\ DebounceCreated("a1")
    /\ PersistIdle
    /\ StoredIdle
    /\ ReentrantIdle
    /\ ThrowIdle

PromiseInit ==
    /\ HubCreated(0)
    /\ \E v \in Results : PromiseHubCreated(v)
    /\ RegistryCreated("Hub", AllReturn)
    /\ SuspenseCreated(0, FALSE)
    /\ DebounceCreated("a1")
    /\ PersistIdle
    /\ StoredIdle
    /\ ReentrantIdle
    /\ ThrowIdle

RegistryInit ==
    /\ HubCreated(0)
    /\ PromiseHubCreated(0)
    /\ \E k \in Kinds, d \in [RListeners -> Behaviours] :
          /\ \A l \in RListeners \ Actors : d[l] = Returns
          /\ RegistryCreated(k, d)
    /\ SuspenseCreated(0, FALSE)
    /\ DebounceCreated("a1")
    /\ PersistIdle
    /\ StoredIdle
    /\ ReentrantIdle
    /\ ThrowIdle

SuspenseInit ==
    /\ HubCreated(0)
    /\ PromiseHubCreated(0)
    /\ RegistryCreated("Hub", AllReturn)
    /\ \E v \in Results, imm \in BOOLEAN : SuspenseCreated(v, imm)
    /\ DebounceCreated("a1")
    /\ PersistIdle
    /\ StoredIdle
    /\ ReentrantIdle
    /\ ThrowIdle

DebounceInit ==
    /\ HubCreated(0)
    /\ PromiseHubCreated(0)
    /\ RegistryCreated("Hub", AllReturn)
    /\ SuspenseCreated(0, FALSE)
    /\ \E a \in DebounceActions : DebounceCreated(a)
    /\ PersistIdle
    /\ StoredIdle
    /\ ReentrantIdle
    /\ ThrowIdle

PersistInit ==
    /\ HubCreated(0)
    /\ PromiseHubCreated(0)
    /\ RegistryCreated("Hub", AllReturn)
    /\ SuspenseCreated(0, FALSE)
    /\ DebounceCreated("a1")
    /\ \E clear \in BOOLEAN, id2 \in ChannelIds, stored \in {NoEntry, serialize(1)} :
          PersistCreated(clear,
                         [i \in Instances |->
                            IF i = "w1" THEN "r0" ELSE IF i = "r1" THEN "r1" ELSE id2],
                         stored)
    /\ StoredIdle
    /\ ReentrantIdle
    /\ ThrowIdle

StoredInit ==
    /\ HubCreated(0)
    /\ PromiseHubCreated(0)
    /\ RegistryCreated("Hub", AllReturn)
    /\ SuspenseCreated(0, FALSE)
    /\ DebounceCreated("a1")
    /\ PersistIdle
    /\ \E v \in Results, stored \in {NoEntry, serialize(1)} : StoredHubCreated(v, stored)
    /\ ReentrantIdle
    /\ ThrowIdle

ReentrantInit ==
    /\ HubCreated(0)
    /\ PromiseHubCreated(0)
    /\ RegistryCreated("Hub", AllReturn)
    /\ SuspenseCreated(0, FALSE)
    /\ DebounceCreated("a1")
    /\ PersistIdle
    /\ StoredIdle
    /\ \E l \in RListeners, on \in Values, with \in Values :
          on # with /\ ReentrantCreated(l, on, with)
    /\ ThrowIdle

ThrowInit ==
    /\ HubCreated(0)
    /\ PromiseHubCreated(0)
    /\ RegistryCreated("Hub", AllReturn)
    /\ SuspenseCreated(0, FALSE)
    /\ DebounceCreated("a1")
    /\ PersistIdle
    /\ StoredIdle
    /\ ReentrantIdle
    /\ \E throwsOn \in SUBSET Notifications : ThrowHubCreated(0, TRUE, throwsOn)

RegistrySpec == RegistryInit /\ [][RegistryNext]_vars

SuspenseSpec == SuspenseInit /\ [][SuspenseNext]_vars

DebounceSpec == DebounceInit /\ [][DebounceNext]_vars

PersistSpec == PersistInit /\ [][PersistNext]_vars

StoredSpec == StoredInit /\ [][StoredNext]_vars

ReentrantSpec == ReentrantInit /\ [][ReentrantNext]_vars

ThrowSpec == ThrowInit /\ [][ThrowNext]_vars

\* Time passes and a timer that is due runs: the event loop does both as long
\* as the page lives.
DebounceFairSpec ==
    DebounceSpec /\ WF_vars(Tick) /\ \A i \in 1..MaxBurst : WF_vars(Fire(i))

HubSpec == HubInit /\ [][HubNext]_vars

PromiseSpec == PromiseInit /\ [][PromiseNext]_vars

\* The continuation of a settled await is a microtask, and the microtask queue
\* is emptied before the event loop does anything else.
PromiseFairSpec == PromiseSpec /\ WF_vars(Resume)

\* ================================================================== claims
Published == lastUpdate.by # "none"

Args(cs) == [i \in 1..Len(cs) |-> cs[i].arg]

\* A step of the useHub updater: nothing else writes `delivered`, and nothing else
\* writes lastUpdate leaving direct = FALSE.
UpdateStep ==
    /\ <<lastUpdate, delivered>>' # <<lastUpdate, delivered>>
    /\ ~lastUpdate'.direct

C2_UpdateReplacesState ==
    (Published /\ ~lastUpdate.direct) => getCurrentState(hubs, "src") = lastUpdate.value

\* C3: functional updates compose: a call of the updater with function f that
\* follows a call with f applies f to the value the previous call published.
C3_FunctionalUpdatesCompose ==
    [][\A f \in PrevStateActions :
          (updateStateFn(f) /\ lastUpdate.by = f /\ ~lastUpdate.direct)
             => lastUpdate'.value = ApplyPrev(f, lastUpdate.value)]_vars

\* C4: ComputedHub consistency: once a source update with v has completed, the
\* computed hub's getCurrentState() is computeAction(v), and every listener of the
\* computed hub invoked for v already saw that state when it was called; at
\* creation the computed hub holds computeAction(source state).
C4_ComputedHubConsistency ==
    /\ (lastUpdate.cmpLive /\ ~lastUpdate.direct) =>
          /\ getCurrentState(hubs, "cmp") = Compute(computeAction, lastUpdate.value)
          /\ \A l \in CmpListeners : \A i \in 1..Len(delivered[l]) :
                delivered[l][i].seen = Compute(computeAction, lastUpdate.value)
    /\ (computeAction # "none" /\ ~Published /\ ~lastUpdate.direct) =>
          getCurrentState(hubs, "cmp") = Compute(computeAction, getCurrentState(hubs, "src"))

\* C5: on a source update with v, every listener of the computed hub is invoked
\* with computeAction(v), never with a value computed from the state the source
\* held before the update.
C5_ComputedListenersSeeNewValue ==
    lastUpdate.cmpLive =>
       \A l \in CmpListeners : \A i \in 1..Len(delivered[l]) :
          delivered[l][i].arg = Compute(computeAction, lastUpdate.value)

\* ------------------------------------------------------ PromiseHub claims
\* The pending flags listener l was handed by call c, in order
RECURSIVE FlagsOf(_, _)
FlagsOf(log, l) ==
    IF log = <<>> THEN <<>>
    ELSE IF l \in Head(log).to THEN <<Head(log).state.pending>> \o FlagsOf(Tail(log), l)
    ELSE FlagsOf(Tail(log), l)

\* Attached for the whole of call c: handed every notification the call made
Throughout(c, l) == \A i \in 1..Len(calls[c].log) : l \in calls[c].log[i].to

CompletedAlone(c) == calls[c].pc = "done" /\ calls[c].solo /\ calls[c].log # <<>>

\* C6: PromiseHub transition ordering. A reAction() call that does not overlap
\* another hands every listener attached throughout it one or more notifications
\* with pending=true and then exactly one with pending=false; no listener is
\* handed pending=false before the call's last notification.
C6_TransitionOrdering ==
    \A c \in CallIds : CompletedAlone(c) =>
       \A l \in PListeners :
          LET flags == FlagsOf(calls[c].log, l) IN
          /\ \A i \in 1..Len(flags) : (i < Len(flags) => flags[i] = TRUE)
          /\ Throughout(c, l) =>
                /\ Len(flags) >= 2
                /\ flags[Len(flags)] = FALSE
                /\ \A i \in 1..(Len(flags) - 1) : flags[i] = TRUE

\* C6 witness: a call that ran alone has completed with P1 attached throughout.
C6_Witness ==
    \E c \in CallIds :
       /\ CompletedAlone(c)
       /\ calls[c].outcome.kind = "ok"
       /\ Throughout(c, "P1")
       /\ FlagsOf(calls[c].log, "P1") = <<TRUE, TRUE, FALSE>>

\* C7: getPendingState() is true exactly while some invocation has been started
\* and has not yet finished settling.
C7_PendingIffInFlight == getPendingState <=> (InFlight # {})

JustCompleted(c) == calls[c].pc # "done" /\ calls'[c].pc = "done"

\* C8: error containment. When the action of a call rejects or throws with E, the
\* promise reAction() returned resolves with undefined (it does not reject), and at
\* that moment getErrorState() is E and getPendingState() is false.
C8_ErrorContainment ==
    [][\A c \in CallIds :
          (JustCompleted(c) /\ calls'[c].outcome.kind = "err") =>
             /\ calls'[c].ret.kind = "undefined"
             /\ promiseState'.error = calls'[c].outcome.err
             /\ promiseState'.pending = FALSE]_vars

\* C8 witness: a call whose action rejected with E2 has completed, after an earlier
\* call had stored E1.
C8_Witness ==
    \E c, d \in CallIds :
       /\ calls[c].pc = "done" /\ calls[d].pc = "done"
       /\ calls[d].order < calls[c].order
       /\ calls[d].outcome.err = "E1"
       /\ calls[c].outcome.err = "E2"
       /\ calls[c].ret.kind = "undefined"
       /\ getErrorState = "E2"
       /\ ~getPendingState

\* C9: frame of a transition. Starting an attempt leaves value and error as they
\* were; a successful settlement sets value to the result and leaves error as it
\* was; a failed settlement sets error to the caught error and leaves value as it
\* was.
C9_TransitionFrame ==
    [][/\ \A c \in CallIds : reAction(c) =>
             /\ promiseState'.currentState = promiseState.currentState
             /\ promiseState'.error = promiseState.error
       /\ \A c \in CallIds :
             JustCompleted(c) =>
                IF calls'[c].outcome.kind = "ok"
                   THEN /\ promiseState'.currentState = calls'[c].outcome.val
                        /\ promiseState'.error = promiseState.error
                   ELSE /\ promiseState'.error = calls'[c].outcome.err
                        /\ promiseState'.currentState = promiseState.currentState]_vars

\* C9 witness: a call has succeeded after an earlier one failed, and the earlier
\* error is still stored next to the new value.
C9_Witness ==
    \E c, d \in CallIds :
       /\ calls[c].pc = "done" /\ calls[d].pc = "done"
       /\ calls[d].order < calls[c].order
       /\ calls[d].outcome.kind = "err"
       /\ calls[c].outcome.kind = "ok"
       /\ getPromiseCurrentState = calls[c].outcome.val
       /\ getErrorState = calls[d].outcome.err

OkDone == {c \in Done : calls[c].outcome.kind = "ok"}

LastOk == CHOOSE c \in OkDone : \A d \in OkDone : calls[d].order <= calls[c].order

NextCall(c) == calls[c].pc = "new" /\ \A d \in CallIds : d < c => calls[d].pc # "new"

\* C10: overlapping triggers. reAction() can be called, and starts its action,
\* whatever the state of the hub (a call made while another is in flight is neither
\* ignored nor queued), a call whose action has settled always gets to write its
\* outcome (it is not cancelled), and once every started call has completed
\* getPendingState() is false and getCurrentState() is the result of the
\* successful call that settled last.
C10_OverlappingTriggers ==
    /\ \A c \in CallIds : NextCall(c) => ENABLED reAction(c)
    /\ \A c \in CallIds : calls[c].pc = "queued" => ENABLED Resume
    /\ (Started # {} /\ InFlight = {}) =>
          /\ ~getPendingState
          /\ OkDone # {} => getPromiseCurrentState = calls[LastOk].outcome.val

\* C10 witness: two calls overlapped, both succeeded with different results, the
\* one started first settled last, and its result is the hub's value.
C10_Witness ==
    /\ Started = {1, 2} /\ InFlight = {}
    /\ ~calls[1].solo /\ ~calls[2].solo
    /\ calls[1].outcome.kind = "ok" /\ calls[2].outcome.kind = "ok"
    /\ calls[1].outcome.val # calls[2].outcome.val
    /\ calls[2].order < calls[1].order
    /\ getPromiseCurrentState = calls[1].outcome.val
    /\ ~getPendingState

\* C11: Attach and detach are idempotent set operations, on Hub and on PromiseHub.
\* The listener set never holds a listener twice; attaching a listener that is
\* attached leaves the set as it was; after one detach the listener is out of the
\* set however often it was attached; detaching a listener that is not attached
\* leaves the set as it was; and an update calls a listener that was attached twice
\* exactly once.
C11_IdempotentRegistry ==
    [][\A l \in RListeners :
          /\ Count(regListeners', l) <= 1
          /\ (attach(l) /\ Has(regListeners, l)) => regListeners' = regListeners
          /\ detach(l) => ~Has(regListeners', l)
          /\ (detach(l) /\ ~Has(regListeners, l)) => regListeners' = regListeners
          /\ (round'.done /\ ~round'.threw /\ Touched(round'.events) = {}
                /\ attachCalls[l] = 2)
                => Count(CallsOf(round'.events), l) = 1]_vars

\* An update has just called, once, a listener that had been attached twice, on
\* a PromiseHub.
C11_Witness ==
    /\ kind = "PromiseHub"
    /\ round.done
    /\ attachCalls["C"] = 2
    /\ CallsOf(round.events) = <<"B", "C">>

\* The latest attachListener / removeListener call a round made with listener l
\* before its event i, or "none"
LastChange(events, l, i) ==
    LET js == {j \in 1..(i - 1) : events[j].op # "call" /\ events[j].l = l}
    IN IF js = {} THEN "none"
       ELSE events[CHOOSE j \in js : \A k \in js : k <= j].op

\* C12: A detached listener is never invoked again. Every listener a round calls
\* is attached at the moment of the call: it was in the set when the round began
\* and the round has not detached it, or the round's latest registry call with it
\* was an attach. This covers a listener detached by another listener of the same
\* round before its own turn.
C12_NoCallAfterDetach ==
    round.done =>
        \A i \in 1..Len(round.events) :
            round.events[i].op = "call" =>
                LET l == round.events[i].l
                    last == LastChange(round.events, l, i)
                IN /\ last # "detach"
                   /\ last = "none" => Has(round.before, l)

\* A detaches C during a round in which C was attached and had not been called
\* yet: the round calls A and B and not C.
C12_Witness ==
    /\ round.done
    /\ round.before = <<"A", "B", "C">>
    /\ does["A"] = [op |-> "detach", target |-> "C"]
    /\ CallsOf(round.events) = <<"A", "B">>

\* C13: The change-callback registry of Hub is symmetric. An update of a Hub
\* invokes no callback whose latest registry call was removeOnChange, whether
\* or not the callback had been registered with onChange before.
C13_RemoveOnChangeRemoves ==
    (kind = "Hub" /\ round.done) =>
        \A c \in round.removed : ~Has(round.cbs, c)

\* C14: Listener exceptions are isolated. In every round the exception of a
\* listener stays inside the round: the notifying method returns normally, every
\* listener that was attached when the round began and that the round neither
\* attached nor detached is called once, and every registered change callback is
\* invoked.
C14_ExceptionsIsolated ==
    round.done =>
        /\ ~round.threw
        /\ \A l \in RListeners :
              (Has(round.before, l) /\ l \notin Touched(round.events))
                  => Count(CallsOf(round.events), l) = 1
        /\ round.cbs = regOnChange

\* The listeners a round detached
DetachedIn(events) ==
    {events[i].l : i \in {j \in 1..Len(events) : events[j].op = "detach"}}

\* C20: Re-entrant mutation of the listener set is safe. Attaching or detaching
\* listeners from inside a listener never makes the round fail: a round ends with
\* an exception only when the listener it called last throws by itself. In a
\* round that no exception ended, every listener that was attached when the round
\* began and that the round did not detach is called exactly once.
C20_ReentrantMutationSafe ==
    round.done =>
        LET called == CallsOf(round.events) IN
        /\ round.threw => (called # <<>> /\ does[called[Len(called)]] = Throws)
        /\ ~round.threw =>
              \A l \in RListeners :
                  (Has(round.before, l) /\ l \notin DetachedIn(round.events))
                      => Count(called, l) = 1

\* A detaches itself and B attaches A again in one round: B and C are called once
\* each, A is called a second time as a newly attached listener.
C20_Witness ==
    /\ round.done
    /\ ~round.threw
    /\ round.before = <<"A", "B", "C">>
    /\ does["A"] = [op |-> "detach", target |-> "A"]
    /\ does["B"] = [op |-> "attach", target |-> "A"]
    /\ CallsOf(round.events) = <<"A", "B", "C", "A">>

\* C15: Suspension decision. Every render attempt of the suspense-mode consumer
\* throws a promise if and only if the PromiseHub is pending at that render; with
\* the hub not pending it returns.
C15_SuspendsIffPending ==
    consumer.last.made => (consumer.last.threw <=> consumer.last.hubPending)

\* C16: Each suspension promise is resolved once, and only with the PromiseHub no
\* longer pending: no promise the hook has thrown is resolved while the hub is
\* pending, and none has its resolve function called a second time.
C16_ResolvedOnlyWhenSettled ==
    \A p \in 1..Len(promises) : promises[p] \in {"unresolved", "resolved"}

\* C17: Suspension liveness. Nothing but a render of the consumer resolves its
\* promise and un-suspends it, and after the hub has returned to pending = false
\* with no call in flight no further notification will come. So whenever the
\* consumer is suspended in such a state, a render of it is scheduled.
C17_NoStuckSuspension ==
    (consumer.suspended /\ ~sState.pending /\ SInFlight = {})
        => (consumer.phase = "mounted" /\ consumer.dirty)

\* C18: Synchronous, depth-first propagation. The step that updates the source
\* hub contains the whole recomputation of the computed hub: when the updater
\* returns, every listener attached to the computed hub has been called, once,
\* with computeAction applied to what the source's getCurrentState() returned
\* during that update. Listeners are called in no other step.
C18_SynchronousPropagation ==
    [][/\ delivered' # delivered => UpdateStep
       /\ UpdateStep =>
             \A l \in CmpListeners :
                 Has(hubs["cmp"].listeners, l) =>
                     /\ Len(delivered'[l]) = 1
                     /\ delivered'[l][1].arg =
                            Compute(computeAction, getCurrentState(hubs', "src"))]_vars

\* An update of the source has called a listener of the source and a listener
\* of the computed hub in the same step.
C18_Witness ==
    /\ Published
    /\ lastUpdate.cmpLive
    /\ Len(delivered["L1"]) = 1
    /\ Len(delivered["D1"]) = 1

C21_AtMostOneInFlight == Cardinality(InFlight) <= 1

\* C22: Automatic trigger. The immediate effect of one usePromiseHub instance
\* calls reAction() at most once however often the component renders; an
\* instance that is mounted with immediate = true has made exactly one call; and
\* a call by the effect is made only with immediate = true.
C22_ImmediateOnce ==
    [][/\ consumer'.ownCalls <= 1
       /\ (consumer'.phase = "mounted" /\ consumer'.immediate) => consumer'.ownCalls = 1
       /\ consumer'.ownCalls > consumer.ownCalls => consumer'.immediate]_vars

\* A mounted instance with immediate = true whose effect has called reAction()
\* once has rendered and returned after that call settled, while a further call
\* could still be made.
C22_Witness ==
    /\ consumer.phase = "mounted"
    /\ consumer.immediate
    /\ consumer.hasRenderedRef
    /\ consumer.ownCalls = 1
    /\ consumer.last.made /\ ~consumer.last.threw
    /\ SInFlight = {}
    /\ \E c \in CallIds : sCalls[c].pc = "new"

\* C23: Unmount versus settlement. detachListener leaves the listener out of the
\* set at once, also while an action is in flight; and the two notifications of a
\* settlement go to exactly the listeners attached when the settlement runs, with
\* the hub's state being what the last of them carries. So a consumer that
\* detached during the flight is handed neither, and the listeners that remain
\* are handed both.
C23_DetachedMissesSettlement ==
    [][/\ \A l \in PListeners : detachListener(l) => ~Has(pListeners', l)
       /\ \A c \in CallIds :
             (JustCompleted(c) /\ calls'[c].log # <<>>) =>
                 LET log == calls'[c].log
                     n == Len(log)
                 IN /\ n >= 2
                    /\ log[n - 1].to = ToSet(pListeners)
                    /\ log[n].to = ToSet(pListeners)
                    /\ promiseState' = log[n].state
                    /\ calls'[c].outcome.kind = "ok"
                          => promiseState'.currentState = calls'[c].outcome.val]_vars

\* P1 and P2 were attached when a call started, P1 detached while the action was
\* in flight: the settlement went to P2 alone and the hub holds the result.
C23_Witness ==
    \E c \in CallIds :
       /\ CompletedAlone(c)
       /\ calls[c].outcome.kind = "ok"
       /\ calls[c].log[1].to = {"P1", "P2"}
       /\ calls[c].log[2].to = {"P2"}
       /\ calls[c].log[3].to = {"P2"}
       /\ getPromiseCurrentState = calls[c].outcome.val
       /\ ~getPendingState
       /\ ~Has(pListeners, "P1")

\* C24: Value provenance. getCurrentState() starts as the value createPromiseHub
\* was given, and the only steps that change it are completions of an invocation
\* whose action resolved successfully, which store that invocation's result. A
\* failed invocation leaves it as it was. So at every moment it is the initial
\* value or the result of a successful invocation.
C24_ValueProvenance ==
    [][/\ promiseState'.currentState # promiseState.currentState =>
             \E c \in CallIds :
                 /\ JustCompleted(c)
                 /\ calls'[c].outcome.kind = "ok"
                 /\ promiseState'.currentState = calls'[c].outcome.val
       /\ \A c \in CallIds :
             (JustCompleted(c) /\ calls'[c].outcome.kind = "err") =>
                 promiseState'.currentState = promiseState.currentState]_vars

\* After an earlier invocation failed, a later one that was started with the
\* value 0 has resolved with 1, and the hub holds 1.
C24_Witness ==
    \E c, d \in CallIds :
       /\ calls[d].pc = "done" /\ calls[d].outcome.kind = "err"
       /\ calls[c].pc = "done" /\ calls[c].outcome.kind = "ok"
       /\ calls[d].order < calls[c].order
       /\ calls[c].outcome.val = 1
       /\ calls[c].arg = 0
       /\ getPromiseCurrentState = 1
       /\ InFlight = {}

\* C25: One round per source update. createComputedHub registers its callback on
\* the source once, and an update of the source calls a listener of the computed
\* hub once if it is attached to the computed hub and not at all if it is not.
C25_OneRoundPerUpdate ==
    [][/\ Count(hubs'["src"].onChangeListeners, ComputedCallback) <= 1
       /\ UpdateStep =>
             \A l \in CmpListeners :
                 Len(delivered'[l]) = IF Has(hubs["cmp"].listeners, l) THEN 1 ELSE 0]_vars

\* A functional update of the source has published 1 with the computed hub in
\* place and D1 attached: the update called D1 once.
C25_Witness ==
    /\ Published
    /\ lastUpdate.cmpLive
    /\ lastUpdate.by = "inc"
    /\ lastUpdate.value = 1
    /\ Len(delivered["D1"]) = 1
    /\ Count(hubs["src"].onChangeListeners, ComputedCallback) = 1

\* C26: useComputeHub tracks its source. Once the source has been updated to v
\* through the useHub updater, a render of a component that calls
\* useComputeHub(hub, computeAction) returns computeAction(v).
C26_ComputeHubTracksSource ==
    (Published /\ ~lastUpdate.direct) =>
        \A ca \in ComputeActions : useComputeHub(hubs, ca) = Compute(ca, lastUpdate.value)
\* ---------------------------------------------------------------------- C27
\* C27: the debounced action runs only when the full delay has passed since
\* the most recent call of the returned function, and what runs then is one
\* execution with the values of that call, so a burst of calls less than the
\* delay apart gives no execution before its last call and one after it; and
\* a burst that is not continued by a further call does get its execution.
Executed == ran' # ran /\ ran' # <<>>

C27_DebouncedOnce ==
    /\ [][Executed => /\ sinceCall = Delay
                      /\ Len(ran') = 1
                      /\ ran'[1].values = lastCall.values]_vars
    /\ \A n \in 1..MaxBurst : (burst = n) ~> (burst # n)

\* C27 witness: a burst of at least two calls has ended in its one execution,
\* a full delay after the last of the calls and with that call's values.
C27_Witness ==
    /\ Len(ran) = 1
    /\ ran[1].after >= 2
    /\ ran[1].values = lastCall.values
    /\ sinceCall = Delay
    /\ debouncer = NoTimers
\* ---------------------------------------------------------------------- C28
\* C28: after calls of the setter of a mounted usePersistentState hook, once
\* its scheduled save has run and none is scheduled any more, the storage
\* entry of the key the hook is rendered with is the serialization of the
\* hook's state. Stated for w1 while no other instance has been rendered.
Alone == \A j \in Instances \ {"w1"} : inst[j].phase = "new"

C29_NoEntryAfterUnmount ==
    (/\ Alone
     /\ clearStorageOnUnMount
     /\ inst["w1"].phase = "unmounted")
    => storage[inst["w1"].key] = NoEntry

\* ---------------------------------------------------------------------- C30
\* C30: when the setter of a usePersistentState instance with key k sets the
\* state to v, every other instance with key k that was mounted at that time,
\* in the same tab or another, has state v once the messages are handled.
C30_OthersFollow ==
    (/\ lastSet.made
     /\ lastSet.key = FirstKey
     /\ \A j \in Instances : inbox[j] = <<>>)
    => \A j \in lastSet.seen : inst[j].state = lastSet.value

\* ---------------------------------------------------------------------- C31
\* C31: useStoredHub keeps hub and consumers in step. When the setter has been
\* called, with values or with functions of the previous state, and the renders
\* and effects that the calls caused have run, every consumer renders the value
\* the calls amount to and hub.getCurrentState() returns it: k calls with
\* prev => prev + 1 have raised the counter by k. Stated for calls made while
\* both consumers are mounted and none took its state from the storage.
StoredQuiet ==
    \A c \in Consumers : consumers[c].queue = <<>> /\ ~consumers[c].changed

C31_HubAndConsumersInStep ==
    (/\ setterCalls.made
     /\ ~setterCalls.loaded
     /\ ~setterCalls.partial
     /\ StoredQuiet)
    => /\ \A c \in Consumers : consumers[c].state = setterCalls.expected
       /\ storedHub.currentState = setterCalls.expected

\* ---------------------------------------------------------------------- C32
\* C32: termination of reAction. A call whose action promise has settled gets
\* to the end of reAction() and the promise it returned resolves; whenever no
\* started call is in flight any more the hub is not pending; and once every
\* started call has settled the hub comes to a state that is not pending.
AllSettled ==
    /\ Started # {}
    /\ \A c \in Started : calls[c].pc \in {"queued", "done"}

C32_ReActionTerminates ==
    /\ \A c \in CallIds :
          (calls[c].pc = "queued")
             ~> (calls[c].pc = "done" /\ calls[c].ret.kind \in {"value", "undefined"})
    /\ []((Started # {} /\ InFlight = {}) => ~getPendingState)
    /\ AllSettled ~> ~getPendingState

\* C32 witness: two calls that overlapped have both run to their end, one after
\* a rejection, both returned promises are resolved and the hub is not pending.
C32_Witness ==
    /\ Done = {1, 2}
    /\ ~calls[1].solo
    /\ ~calls[2].solo
    /\ \E c \in Done : calls[c].outcome.kind = "err"
    /\ \A c \in Done : calls[c].ret.kind \in {"value", "undefined"}
    /\ ~getPendingState

\* ---------------------------------------------------------------------- C33
\* C33: the action of a reAction() call gets the hub's value as it is when the
\* call is made, after the pending = true notification; what it got does not
\* change while the call is in flight, whatever other calls write; so a call
\* made while another is in flight that got the value still current gets the
\* same value.
Triggered(c) == calls[c].pc = "new" /\ calls'[c].pc # "new"

C33_ActionGetsValueAtTrigger ==
    [][\A c \in CallIds :
          /\ Triggered(c) =>
                /\ calls'[c].arg = getPromiseCurrentState
                /\ \A d \in InFlight :
                      calls[d].arg = getPromiseCurrentState => calls'[c].arg = calls'[d].arg
                /\ (calls'[c].pc = "awaiting" /\ calls'[c].solo) =>
                      /\ calls'[c].log # <<>>
                      /\ calls'[c].log[1].state.pending
                      /\ calls'[c].log[1].state.currentState = calls'[c].arg
          /\ c \in InFlight => calls'[c].arg = calls[c].arg]_vars

\* C33 witness: two calls are in flight at once on a hub whose value is 1, and
\* the action got 1 in both.
C33_Witness ==
    /\ calls[1].pc = "awaiting"
    /\ calls[2].pc = "awaiting"
    /\ getPromiseCurrentState = 1
    /\ calls[1].arg = 1
    /\ calls[2].arg = 1

\* ---------------------------------------------------------------------- C34
\* C34: re-entrant update. When a listener published w on the hub while it was
\* being called with v, the calls of the nested round come one after the
\* other, before the outer round goes on, and when the outer update has
\* returned, the last value each listener was called with is w.
NestedCalls == {i \in 1..Len(rnCalls) : rnCalls[i].depth = 2}

LastCallOf(l) ==
    LET last == CHOOSE i \in 1..Len(rnCalls) :
                   /\ rnCalls[i].listener = l
                   /\ \A j \in 1..Len(rnCalls) : rnCalls[j].listener = l => j <= i
    IN rnCalls[last].value

C34_ReentrantUpdateConverges ==
    NestedCalls # {} =>
        /\ \A i, j \in NestedCalls, k \in 1..Len(rnCalls) :
              (i < k /\ k < j) => k \in NestedCalls
        /\ \A i \in 1..Len(rnCalls) : LastCallOf(rnCalls[i].listener) = republish.with

\* ---------------------------------------------------------------------- C35
\* C35: a listener that throws in one of the notifications of reAction() does
\* not keep the call from ending with pending = false and a resolved promise:
\* the hub is never pending with no call in flight, and no promise returned
\* by reAction() is rejected.
C35_ListenerExceptionContained ==
    /\ thState.pending => ThrowInFlight # {}
    /\ \A c \in CallIds : thCalls[c].ret # "rejected"

\* ---------------------------------------------------------------------- C36
\* C36: getErrorState() is null or an error with which a call of the action
\* rejected; an exception a listener threw when it was notified of a result
\* is never the hub's error.
C36_ErrorIsActionError ==
    \/ thState.error = NoError
    \/ \E c \in CallIds :
          /\ thCalls[c].outcome.kind = "err"
          /\ thCalls[c].outcome.err = thState.error

\* ---------------------------------------------------------------------- C37
\* C37: no update is missed between the first render of a consumer and the
\* effect that attaches its listener: once the consumer is subscribed, no
\* call is in flight and no render is scheduled, the value the consumer
\* renders is the hub's current value, the last one the hub published.
C37_NoMissedUpdate ==
    (/\ consumer.phase = "mounted"
     /\ Has(sListeners, SetState)
     /\ SInFlight = {}
     /\ sQueue = <<>>
     /\ ~consumer.dirty)
    => consumer.state.currentState = sState.currentState

\* ---------------------------------------------------------------------- C38
\* C38: a storage-broadcast message that a usePersistentState or
\* useReadPersistentState instance receives becomes its state if the key of
\* the message is the receiver's key, whatever the value, 0 included; a
\* message for another key leaves the state as it is.
C38_MessageAppliedIffKeyMatches ==
    [][\A i \in Instances :
          Deliver(i) =>
             inst'[i].state = IF Head(inbox[i]).key = inst[i].key
                                 THEN Head(inbox[i]).value
                              ELSE inst[i].state]_vars

\* ---------------------------------------------------------------------- C39
\* C39: a suspense-mode consumer instance has at most one unresolved
\* suspension promise. When a render creates a new promise, the resolver the
\* instance had stored has been called; after a render that finds pending =
\* false the stored resolver is null; and an instance that stays in the tree
\* leaves no unresolved promise behind: the unresolved promises other than the
\* one whose resolver it holds stay the ones that earlier instances left.
Orphans ==
    {p \in 1..Len(promises) : promises[p] = "unresolved" /\ p # consumer.resolveRef}

RenderStep == FirstRender \/ Render \/ ImmediateChanges

C39_OneUnresolvedPromise ==
    [][/\ (Len(promises') > Len(promises) /\ consumer.resolveRef # 0)
            => promises'[consumer.resolveRef] # "unresolved"
       /\ (RenderStep /\ ~consumer'.last.threw) => consumer'.resolveRef = 0
       /\ consumer'.resolveRef # 0 => promises'[consumer'.resolveRef] = "unresolved"
       /\ consumer'.phase # "absent" =>
              {p \in 1..Len(promises') : promises'[p] = "unresolved"
                                         /\ p # consumer'.resolveRef} = Orphans]_vars

\* C39 witness: a mounted instance has suspended a second time: it holds the
\* resolver of the newest promise, the promise before that has been resolved,
\* and no unresolved promise is left over.
C39_Witness ==
    /\ consumer.phase = "mounted"
    /\ consumer.suspended
    /\ Len(promises) >= 2
    /\ consumer.resolveRef = Len(promises)
    /\ promises[Len(promises)] = "unresolved"
    /\ promises[Len(promises) - 1] # "unresolved"
    /\ Orphans = {}
====
